---- MODULE Spec2Model ----
(***************************************************************************)
(* Salon reservation system: the AVL catalog (avl_tree.py), the augmented  *)
(* interval tree (interval_tree.py), the undo/redo manager (stack_queue.py)*)
(* and the ReservationSystem that orchestrates them                        *)
(* (reservation_system.py).                                                *)
(*                                                                         *)
(* Python objects are mutable and shared by reference.  Room and           *)
(* Reservation objects therefore live in heaps (roomHeap, resHeap) and the *)
(* dictionaries, the AVL trees and the interval payloads hold addresses.   *)
(* Identifiers are small naturals standing for id strings in their         *)
(* lexicographic order.  Datetimes are seconds; every datetime drawn as an *)
(* input is a whole minute, as the console layer produces them.            *)
(*                                                                         *)
(* Intermediate values are bound with With, which evaluates its first      *)
(* argument exactly once: the statements of a method become a chain of     *)
(* With bindings in the order the method executes them.                    *)
(***************************************************************************)
EXTENDS Integers, Sequences, FiniteSets, Bags, TLC

\* ------------------------------------------------------------------ bounds
MaxRooms == 2      \* room ids 1..MaxRooms
MaxRes == 2        \* reservation ids 1..MaxRes
MaxOps == 5        \* number of ledger calls explored
MaxBatchOps == 6    \* number of calls explored around a batch
MaxTreeOps == 6    \* number of calls explored on a stand-alone tree
MaxHistory == 3    \* UndoRedoManager(max_history=...), scaled down
MaxAttendees == 2  \* attendees 1..MaxAttendees; a room seats MaxAttendees - 1
MaxPoint == 2      \* endpoints 0..MaxPoint of a stand-alone tree's intervals
MaxKey == 4        \* keys 1..MaxKey of a stand-alone AVL tree
MaxAvlOps == 5     \* number of calls explored on a stand-alone AVL tree

SecondsPerMinute == 60

Max2(a, b) == IF a >= b THEN a ELSE b

\* bind the value of e to the parameter of F
With(e, F(_)) == CHOOSE y \in {F(v) : v \in {e}} : TRUE

\* =================================================================== AVL
AvlNil == [nil |-> TRUE]

AVLNode(key, value) ==
    [key |-> key, value |-> value, left |-> AvlNil, right |-> AvlNil, height |-> 1]

AVLTree == [root |-> AvlNil, size |-> 0]

avl_compare(a, b) == (IF a > b THEN 1 ELSE 0) - (IF a < b THEN 1 ELSE 0)

avl_height(node) == IF node = AvlNil THEN 0 ELSE node.height

avl_balance_factor(node) ==
    IF node = AvlNil THEN 0 ELSE avl_height(node.left) - avl_height(node.right)

avl_update_height(node) ==
    [node EXCEPT !.height = 1 + Max2(avl_height(node.left), avl_height(node.right))]

avl_rotate_right(y) ==
    With(avl_update_height([y EXCEPT !.left = y.left.right]), LAMBDA y2 :
         avl_update_height([y.left EXCEPT !.right = y2]))

avl_rotate_left(x) ==
    With(avl_update_height([x EXCEPT !.right = x.right.left]), LAMBDA x2 :
         avl_update_height([x.right EXCEPT !.left = x2]))

\* _rebalance leaving the node as it is
avl_rebalance_never(node, key) == node

avl_rebalance(node, key) ==
    With(avl_balance_factor(node), LAMBDA balance :
    IF balance > 1 /\ avl_compare(key, node.left.key) < 0
      THEN avl_rotate_right(node)
    ELSE IF balance < -1 /\ avl_compare(key, node.right.key) > 0
      THEN avl_rotate_left(node)
    ELSE IF balance > 1 /\ avl_compare(key, node.left.key) > 0
      THEN With(avl_rotate_left(node.left), LAMBDA l :
                avl_rotate_right([node EXCEPT !.left = l]))
    ELSE IF balance < -1 /\ avl_compare(key, node.right.key) < 0
      THEN With(avl_rotate_right(node.right), LAMBDA r :
                avl_rotate_left([node EXCEPT !.right = r]))
    ELSE node)

RECURSIVE avl_insert_node(_, _, _)
avl_insert_node(node, key, value) ==
    IF node = AvlNil THEN AVLNode(key, value)
    ELSE With(avl_compare(key, node.key), LAMBDA cmp :
         IF cmp < 0
           THEN With(avl_insert_node(node.left, key, value), LAMBDA l :
                With(avl_update_height([node EXCEPT !.left = l]), LAMBDA n :
                     avl_rebalance(n, key)))
         ELSE IF cmp > 0
           THEN With(avl_insert_node(node.right, key, value), LAMBDA r :
                With(avl_update_height([node EXCEPT !.right = r]), LAMBDA n :
                     avl_rebalance(n, key)))
         ELSE [node EXCEPT !.value = value])

avl_insert(tree, key, value) ==
    [root |-> avl_insert_node(tree.root, key, value), size |-> tree.size + 1]

RECURSIVE avl_search_node(_, _)
avl_search_node(node, key) ==
    IF node = AvlNil THEN AvlNil
    ELSE With(avl_compare(key, node.key), LAMBDA cmp :
         IF cmp < 0 THEN avl_search_node(node.left, key)
         ELSE IF cmp > 0 THEN avl_search_node(node.right, key)
         ELSE node)

\* search returns the stored value, or None (modelled as 0: addresses are >= 1)
None == 0

avl_search(tree, key) ==
    With(avl_search_node(tree.root, key), LAMBDA node :
         IF node = AvlNil THEN None ELSE node.value)

avl_contains(tree, key) == avl_search_node(tree.root, key) # AvlNil

RECURSIVE avl_find_min(_)
avl_find_min(node) == IF node.left = AvlNil THEN node ELSE avl_find_min(node.left)

avl_delete_rebalance(node) ==
    With(avl_balance_factor(node), LAMBDA balance :
    IF balance > 1 /\ avl_balance_factor(node.left) >= 0
      THEN avl_rotate_right(node)
    ELSE IF balance > 1 /\ avl_balance_factor(node.left) < 0
      THEN With(avl_rotate_left(node.left), LAMBDA l :
                avl_rotate_right([node EXCEPT !.left = l]))
    ELSE IF balance < -1 /\ avl_balance_factor(node.right) <= 0
      THEN avl_rotate_left(node)
    ELSE IF balance < -1 /\ avl_balance_factor(node.right) > 0
      THEN With(avl_rotate_right(node.right), LAMBDA r :
                avl_rotate_left([node EXCEPT !.right = r]))
    ELSE node)

\* _delete cutting off the right subtree of a node with two children
RECURSIVE avl_delete_node_drops_right(_, _)
avl_delete_node_drops_right(node, key) ==
    IF node = AvlNil THEN AvlNil
    ELSE With(avl_compare(key, node.key), LAMBDA cmp :
         IF cmp < 0
           THEN With(avl_delete_node_drops_right(node.left, key), LAMBDA l :
                With(avl_update_height([node EXCEPT !.left = l]), LAMBDA n :
                     avl_delete_rebalance(n)))
         ELSE IF cmp > 0
           THEN With(avl_delete_node_drops_right(node.right, key), LAMBDA r :
                With(avl_update_height([node EXCEPT !.right = r]), LAMBDA n :
                     avl_delete_rebalance(n)))
         ELSE IF node.left = AvlNil THEN node.right
         ELSE node.left)

RECURSIVE avl_delete_node(_, _)
avl_delete_node(node, key) ==
    IF node = AvlNil THEN AvlNil
    ELSE With(avl_compare(key, node.key), LAMBDA cmp :
         IF cmp < 0
           THEN With(avl_delete_node(node.left, key), LAMBDA l :
                With(avl_update_height([node EXCEPT !.left = l]), LAMBDA n :
                     avl_delete_rebalance(n)))
         ELSE IF cmp > 0
           THEN With(avl_delete_node(node.right, key), LAMBDA r :
                With(avl_update_height([node EXCEPT !.right = r]), LAMBDA n :
                     avl_delete_rebalance(n)))
         ELSE IF node.left = AvlNil THEN node.right
         ELSE IF node.right = AvlNil THEN node.left
         ELSE With(avl_find_min(node.right), LAMBDA successor :
              With(avl_delete_node(node.right, successor.key), LAMBDA r :
              With(avl_update_height([node EXCEPT !.key = successor.key,
                                                  !.value = successor.value,
                                                  !.right = r]), LAMBDA n :
                   avl_delete_rebalance(n)))))

avl_delete(tree, key) ==
    IF ~avl_contains(tree, key) THEN tree
    ELSE [root |-> avl_delete_node(tree.root, key), size |-> tree.size - 1]

\* what delete(key) returns
avl_delete_returns(tree, key) == avl_contains(tree, key)

RECURSIVE avl_values(_)
avl_values(node) ==
    IF node = AvlNil THEN {}
    ELSE {node.value} \cup avl_values(node.left) \cup avl_values(node.right)

RECURSIVE avl_keys(_)
avl_keys(node) ==
    IF node = AvlNil THEN {}
    ELSE {node.key} \cup avl_keys(node.left) \cup avl_keys(node.right)

\* _range_query taking a key equal to low as outside the range
RECURSIVE range_query_node_open_low(_, _, _)
range_query_node_open_low(node, low, high) ==
    IF node = AvlNil THEN <<>>
    ELSE (IF avl_compare(node.key, low) > 0
            THEN range_query_node_open_low(node.left, low, high) ELSE <<>>)
         \o (IF avl_compare(node.key, low) > 0 /\ avl_compare(node.key, high) <= 0
               THEN <<(<<node.key, node.value>>)>> ELSE <<>>)
         \o (IF avl_compare(node.key, high) < 0
               THEN range_query_node_open_low(node.right, low, high) ELSE <<>>)

\* the nested _range_query: the list of (key, value) appended, in order
RECURSIVE range_query_node(_, _, _)
range_query_node(node, low, high) ==
    IF node = AvlNil THEN <<>>
    ELSE (IF avl_compare(node.key, low) > 0
            THEN range_query_node(node.left, low, high) ELSE <<>>)
         \o (IF avl_compare(node.key, low) >= 0 /\ avl_compare(node.key, high) <= 0
               THEN <<(<<node.key, node.value>>)>> ELSE <<>>)
         \o (IF avl_compare(node.key, high) < 0
               THEN range_query_node(node.right, low, high) ELSE <<>>)

range_query(tree, low, high) == range_query_node(tree.root, low, high)

\* ========================================================= interval tree
ItNil == [nil |-> TRUE]

\* Interval.__init__ raises ValueError when start > end
IntervalRaises(start, end) == start > end

Interval(start, end, data) == [start |-> start, end |-> end, data |-> data]

\* overlaps on closed intervals: touching endpoints count
interval_overlaps_closed(a, b) == a.start <= b.end /\ b.start <= a.end

interval_overlaps(a, b) == a.start < b.end /\ b.start < a.end

\* contains counting the end point as inside
interval_contains_closed(a, point) == a.start <= point /\ point <= a.end

interval_contains(a, point) ==
    a.start <= point /\ point < a.end

interval_eq(a, b) == a.start = b.start /\ a.end = b.end

interval_lt(a, b) == IF a.start # b.start THEN a.start < b.start ELSE a.end < b.end

IntervalNode(interval) ==
    [interval |-> interval, max_end |-> interval.end,
     left |-> ItNil, right |-> ItNil, height |-> 1]

IntervalTree == [root |-> ItNil, size |-> 0]

it_height(node) == IF node = ItNil THEN 0 ELSE node.height

it_balance_factor(node) ==
    IF node = ItNil THEN 0 ELSE it_height(node.left) - it_height(node.right)

\* _update_height_and_max never lowering a max_end
it_update_height_and_max_keeps_old(node) ==
    [node EXCEPT
       !.height = 1 + Max2(it_height(node.left), it_height(node.right)),
       !.max_end = Max2(Max2(node.max_end,
                             IF node.left # ItNil THEN node.left.max_end
                                                  ELSE node.interval.end),
                        IF node.right # ItNil THEN node.right.max_end
                                              ELSE node.interval.end)]

it_update_height_and_max(node) ==
    [node EXCEPT
       !.height = 1 + Max2(it_height(node.left), it_height(node.right)),
       !.max_end = Max2(Max2(node.interval.end,
                             IF node.left # ItNil THEN node.left.max_end
                                                  ELSE node.interval.end),
                        IF node.right # ItNil THEN node.right.max_end
                                              ELSE node.interval.end)]

it_rotate_right(y) ==
    With(it_update_height_and_max([y EXCEPT !.left = y.left.right]), LAMBDA y2 :
         it_update_height_and_max([y.left EXCEPT !.right = y2]))

it_rotate_left(x) ==
    With(it_update_height_and_max([x EXCEPT !.right = x.right.left]), LAMBDA x2 :
         it_update_height_and_max([x.right EXCEPT !.left = x2]))

it_insert_rebalance(node, interval) ==
    With(it_balance_factor(node), LAMBDA balance :
    IF balance > 1 /\ interval.start < node.left.interval.start
      THEN it_rotate_right(node)
    ELSE IF balance < -1 /\ interval.start >= node.right.interval.start
      THEN it_rotate_left(node)
    ELSE IF balance > 1 /\ interval.start >= node.left.interval.start
      THEN With(it_rotate_left(node.left), LAMBDA l :
                it_rotate_right([node EXCEPT !.left = l]))
    ELSE IF balance < -1 /\ interval.start < node.right.interval.start
      THEN With(it_rotate_right(node.right), LAMBDA r :
                it_rotate_left([node EXCEPT !.right = r]))
    ELSE node)

RECURSIVE it_insert_node(_, _)
it_insert_node(node, interval) ==
    IF node = ItNil THEN IntervalNode(interval)
    ELSE IF interval.start < node.interval.start
      THEN With(it_insert_node(node.left, interval), LAMBDA l :
           With(it_update_height_and_max([node EXCEPT !.left = l]), LAMBDA n :
                it_insert_rebalance(n, interval)))
    ELSE With(it_insert_node(node.right, interval), LAMBDA r :
         With(it_update_height_and_max([node EXCEPT !.right = r]), LAMBDA n :
              it_insert_rebalance(n, interval)))

it_insert(tree, interval) ==
    [root |-> it_insert_node(tree.root, interval), size |-> tree.size + 1]

RECURSIVE it_search(_, _)
it_search(node, query) ==
    IF node = ItNil THEN << >>
    ELSE IF node.max_end <= query.start THEN << >>
    ELSE (IF node.left # ItNil THEN it_search(node.left, query) ELSE << >>)
         \o (IF interval_overlaps(node.interval, query) THEN <<node.interval>> ELSE << >>)
         \o (IF node.interval.start < query.end THEN it_search(node.right, query) ELSE << >>)

find_overlapping(tree, query) == it_search(tree.root, query)

\* the nested _search of find_at_point: the list of intervals appended
RECURSIVE it_search_point(_, _)
it_search_point(node, point) ==
    IF node = ItNil THEN << >>
    ELSE IF node.max_end <= point THEN << >>
    ELSE (IF node.left # ItNil THEN it_search_point(node.left, point) ELSE << >>)
         \o (IF interval_contains(node.interval, point) THEN <<node.interval>> ELSE << >>)
         \o (IF node.interval.start <= point
               THEN it_search_point(node.right, point) ELSE << >>)

find_at_point(tree, point) == it_search_point(tree.root, point)

RECURSIVE it_find_min(_)
it_find_min(node) == IF node.left = ItNil THEN node ELSE it_find_min(node.left)

it_delete_rebalance(node) ==
    With(it_balance_factor(node), LAMBDA balance :
    IF balance > 1 /\ it_balance_factor(node.left) >= 0
      THEN it_rotate_right(node)
    ELSE IF balance > 1 /\ it_balance_factor(node.left) < 0
      THEN With(it_rotate_left(node.left), LAMBDA l :
                it_rotate_right([node EXCEPT !.left = l]))
    ELSE IF balance < -1 /\ it_balance_factor(node.right) <= 0
      THEN it_rotate_left(node)
    ELSE IF balance < -1 /\ it_balance_factor(node.right) > 0
      THEN With(it_rotate_right(node.right), LAMBDA r :
                it_rotate_left([node EXCEPT !.right = r]))
    ELSE node)

\* the tail of _delete: update height and max_end, then rebalance
it_delete_fix(node) ==
    With(it_update_height_and_max(node), LAMBDA n : it_delete_rebalance(n))

RECURSIVE it_delete_node(_, _)
it_delete_node(node, interval) ==
    IF node = ItNil THEN ItNil
    ELSE IF interval_lt(interval, node.interval)
      THEN With(it_delete_node(node.left, interval), LAMBDA l :
                it_delete_fix([node EXCEPT !.left = l]))
    ELSE IF interval.start > node.interval.start
            \/ (interval.start = node.interval.start /\ interval.end > node.interval.end)
      THEN With(it_delete_node(node.right, interval), LAMBDA r :
                it_delete_fix([node EXCEPT !.right = r]))
    ELSE IF interval_eq(interval, node.interval)
      THEN IF node.left = ItNil THEN node.right
           ELSE IF node.right = ItNil THEN node.left
           ELSE With(it_find_min(node.right), LAMBDA successor :
                With(it_delete_node(node.right, successor.interval), LAMBDA r :
                     it_delete_fix([node EXCEPT !.interval = successor.interval,
                                                !.right = r])))
    ELSE With(it_delete_node(node.right, interval), LAMBDA r :
              it_delete_fix([node EXCEPT !.right = r]))

RECURSIVE it_count_nodes(_)
it_count_nodes(node) ==
    IF node = ItNil THEN 0
    ELSE 1 + it_count_nodes(node.left) + it_count_nodes(node.right)

\* delete returns the tree and the boolean the method returns
it_delete(tree, interval) ==
    With(it_delete_node(tree.root, interval), LAMBDA root :
    With(it_count_nodes(root), LAMBDA new_size :
         IF new_size < tree.size
           THEN [tree |-> [root |-> root, size |-> new_size], ok |-> TRUE]
           ELSE [tree |-> [root |-> root, size |-> tree.size], ok |-> FALSE]))

RECURSIVE it_inorder(_)
it_inorder(node) ==
    IF node = ItNil THEN << >>
    ELSE it_inorder(node.left) \o <<node.interval>> \o it_inorder(node.right)

get_all_intervals(tree) == it_inorder(tree.root)

\* list.sort(key=lambda x: x.start): stable, ascending by start
RECURSIVE sort_by_start(_)
sort_by_start(seq) ==
    IF seq = << >> THEN << >>
    ELSE With(sort_by_start(SubSeq(seq, 1, Len(seq) - 1)), LAMBDA sorted :
         With(seq[Len(seq)], LAMBDA x :
         With(Cardinality({i \in DOMAIN sorted : sorted[i].start <= x.start}), LAMBDA n :
              SubSeq(sorted, 1, n) \o <<x>> \o SubSeq(sorted, n + 1, Len(sorted)))))

\* the sweep moving current_start to the end of every interval, earlier or not
RECURSIVE it_sweep_moves_back(_, _, _, _)
it_sweep_moves_back(existing, current_start, end, duration) ==
    IF existing = << >>
      THEN (IF current_start < end /\ end - current_start >= duration
              THEN <<Interval(current_start, end, None)>> ELSE << >>)
    ELSE With(Head(existing), LAMBDA interval :
         (IF interval.start > current_start /\ interval.start - current_start >= duration
            THEN <<Interval(current_start, interval.start, None)>> ELSE << >>)
         \o it_sweep_moves_back(Tail(existing), interval.end, end, duration))

\* the loop of find_available_slots over the sorted intervals and the check of
\* the last gap after it: the list of available intervals appended
RECURSIVE it_sweep(_, _, _, _)
it_sweep(existing, current_start, end, duration) ==
    IF existing = << >>
      THEN (IF current_start < end /\ end - current_start >= duration
              THEN <<Interval(current_start, end, None)>> ELSE << >>)
    ELSE With(Head(existing), LAMBDA interval :
         (IF interval.start > current_start /\ interval.start - current_start >= duration
            THEN <<Interval(current_start, interval.start, None)>> ELSE << >>)
         \o it_sweep(Tail(existing),
                     IF interval.end > current_start THEN interval.end ELSE current_start,
                     end, duration))

find_available_slots(t, start, end, duration) ==
    With(sort_by_start(find_overlapping(t, Interval(start, end, None))), LAMBDA existing :
         it_sweep(existing, start, end, duration))

\* ======================================================== undo/redo manager
NoState == [nil |-> TRUE]

Action(action_type, entity_type, entity_id, old_state, new_state) ==
    [action_type |-> action_type, entity_type |-> entity_type,
     entity_id |-> entity_id, old_state |-> old_state, new_state |-> new_state]

\* Stack.push: a full stack refuses the item
stack_push(items, item, max_size) ==
    IF max_size # 0 /\ Len(items) >= max_size THEN items ELSE Append(items, item)

stack_pop(items) == SubSeq(items, 1, Len(items) - 1)

stack_peek(items) == items[Len(items)]

\* record_action leaving the redo stack as it is
record_action_keep_redo(s, action) ==
    IF s.batch_mode
      THEN [s EXCEPT !.batch_actions = Append(@, action)]
      ELSE [s EXCEPT !.undo_stack = stack_push(@, action, MaxHistory)]

record_action(s, action) ==
    IF s.batch_mode
      THEN [s EXCEPT !.batch_actions = Append(@, action)]
      ELSE [s EXCEPT !.undo_stack = stack_push(@, action, MaxHistory),
                     !.redo_stack = << >>]

record_create(s, entity_type, entity_id, new_state) ==
    record_action(s, Action("CREATE", entity_type, entity_id, NoState, new_state))

record_update(s, entity_type, entity_id, old_state, new_state) ==
    record_action(s, Action("UPDATE", entity_type, entity_id, old_state, new_state))

record_delete(s, entity_type, entity_id, old_state) ==
    record_action(s, Action("DELETE", entity_type, entity_id, old_state, NoState))

begin_batch(s) == [s EXCEPT !.batch_mode = TRUE, !.batch_actions = << >>]

end_batch(s) ==
    IF ~s.batch_mode THEN s
    ELSE IF s.batch_actions # << >>
      THEN [s EXCEPT !.batch_mode = FALSE,
                     !.undo_stack = stack_push(@,
                         Action("BATCH", "batch", None,
                                [batch |-> s.batch_actions], NoState),
                         MaxHistory),
                     !.redo_stack = << >>,
                     !.batch_actions = << >>]
    ELSE [s EXCEPT !.batch_mode = FALSE, !.batch_actions = << >>]

can_undo(s) == s.undo_stack # << >>

can_redo(s) == s.redo_stack # << >>

\* UndoRedoManager.undo dropping the command it pops
manager_undo_forgets(s) ==
    IF ~can_undo(s) THEN [s |-> s, action |-> NoState]
    ELSE [s |-> [s EXCEPT !.undo_stack = stack_pop(@)],
          action |-> stack_peek(s.undo_stack)]

\* UndoRedoManager.undo / redo: the manager's state and the action returned
manager_undo(s) ==
    IF ~can_undo(s) THEN [s |-> s, action |-> NoState]
    ELSE [s |-> [s EXCEPT !.undo_stack = stack_pop(@),
                          !.redo_stack = stack_push(@, stack_peek(s.undo_stack),
                                                    MaxHistory)],
          action |-> stack_peek(s.undo_stack)]

manager_redo(s) ==
    IF ~can_redo(s) THEN [s |-> s, action |-> NoState]
    ELSE [s |-> [s EXCEPT !.redo_stack = stack_pop(@),
                          !.undo_stack = stack_push(@, stack_peek(s.redo_stack),
                                                    MaxHistory)],
          action |-> stack_peek(s.redo_stack)]

\* ============================================================ data classes
StatusValue ==
    [PENDING |-> "pending", CONFIRMED |-> "confirmed", CANCELLED |-> "cancelled",
     COMPLETED |-> "completed", NO_SHOW |-> "no_show"]

ReservationStatus(value) == CHOOSE n \in DOMAIN StatusValue : StatusValue[n] = value

RoomTypeValue == [MEETING |-> "meeting", CONFERENCE |-> "conference"]

RoomType(value) == CHOOSE n \in DOMAIN RoomTypeValue : RoomTypeValue[n] = value

isoformat(dt) == <<"iso", dt>>

fromisoformat(text) == text[2]

Room(id, capacity, room_type, is_active) ==
    [id |-> id, capacity |-> capacity, room_type |-> room_type, is_active |-> is_active]

room_to_dict(room) ==
    [id |-> room.id, capacity |-> room.capacity,
     room_type |-> RoomTypeValue[room.room_type], is_active |-> room.is_active]

room_from_dict(data) ==
    Room(data.id, data.capacity, RoomType(data.room_type), data.is_active)

Reservation(id, room_id, start_time, end_time, status, title, attendees) ==
    [id |-> id, room_id |-> room_id, start_time |-> start_time, end_time |-> end_time,
     status |-> status, title |-> title, attendees |-> attendees]

res_to_dict(r) ==
    [id |-> r.id, room_id |-> r.room_id,
     start_time |-> isoformat(r.start_time), end_time |-> isoformat(r.end_time),
     status |-> StatusValue[r.status], title |-> r.title, attendees |-> r.attendees]

res_from_dict(data) ==
    Reservation(data.id, data.room_id, fromisoformat(data.start_time),
                fromisoformat(data.end_time), ReservationStatus(data.status),
                data.title, data.attendees)

datetime_to_minutes(dt) == dt \div SecondsPerMinute

\* ====================================================== ReservationSystem
DictSet(d, k, v) == [x \in (DOMAIN d) \cup {k} |-> IF x = k THEN v ELSE d[x]]

DictDel(d, k) == [x \in (DOMAIN d) \ {k} |-> d[x]]

EmptyDict == [x \in {} |-> None]

\* a fresh object: the smallest address not in use
NewAddr(heap) ==
    CHOOSE a \in 1..(Cardinality(DOMAIN heap) + 1) :
        /\ a \notin DOMAIN heap
        /\ \A b \in 1..(a - 1) : b \in DOMAIN heap

\* ReservationSystem.__init__
ReservationSystem ==
    [rooms |-> EmptyDict, room_tree |-> AVLTree, roomHeap |-> EmptyDict,
     reservations |-> EmptyDict, reservation_tree |-> AVLTree, resHeap |-> EmptyDict,
     room_intervals |-> EmptyDict,
     undo_stack |-> << >>, redo_stack |-> << >>,
     batch_mode |-> FALSE, batch_actions |-> << >>,
     notified |-> << >>]

\* self._waiting_list.notify_available(room) called: the call is noted with its
\* argument and with the bookings and indexes as they are when it is made
notify_available(s, room) ==
    [s EXCEPT !.notified = Append(@, [room |-> room, resHeap |-> s.resHeap,
                                      room_intervals |-> s.room_intervals])]

\* what a method leaves behind: the state and what it returned or raised
Ret(s, ret) == [s |-> s, ret |-> ret]

get_room(s, room_id) == avl_search(s.room_tree, room_id)

get_reservation(s, reservation_id) == avl_search(s.reservation_tree, reservation_id)

add_room(s, room) ==
    IF room.id \in DOMAIN s.rooms THEN Ret(s, "False")
    ELSE With(NewAddr(s.roomHeap), LAMBDA a :
         With([s EXCEPT !.roomHeap = DictSet(@, a, room),
                        !.rooms = DictSet(@, room.id, a),
                        !.room_tree = avl_insert(@, room.id, a),
                        !.room_intervals = DictSet(@, room.id, IntervalTree)],
              LAMBDA s1 :
              Ret(record_create(s1, "room", room.id, room_to_dict(room)), "True")))

\* update_room(room_id, is_active=value)
update_room(s, room_id, is_active) ==
    With(get_room(s, room_id), LAMBDA a :
    IF a = None THEN Ret(s, "False")
    ELSE With([s EXCEPT !.roomHeap[a].is_active = is_active], LAMBDA s1 :
              Ret(record_update(s1, "room", room_id, room_to_dict(s.roomHeap[a]),
                                room_to_dict(s1.roomHeap[a])), "True")))

delete_room(s, room_id) ==
    With(get_room(s, room_id), LAMBDA a :
    IF a = None THEN Ret(s, "False")
    ELSE IF room_id \in DOMAIN s.room_intervals /\ s.room_intervals[room_id].size > 0
      THEN Ret(s, "False")
    ELSE IF room_id \notin DOMAIN s.rooms THEN Ret(s, "KeyError")
    ELSE With([s EXCEPT !.rooms = DictDel(@, room_id),
                        !.room_tree = avl_delete(@, room_id)], LAMBDA s1 :
         IF room_id \notin DOMAIN s1.room_intervals THEN Ret(s1, "KeyError")
         ELSE With([s1 EXCEPT !.room_intervals = DictDel(@, room_id)], LAMBDA s2 :
                   Ret(record_delete(s2, "room", room_id, room_to_dict(s.roomHeap[a])),
                       "True"))))

\* check_conflict builds Interval(start, end) only for a known room
check_conflict_raises(s, room_id, start_time, end_time) ==
    /\ room_id \in DOMAIN s.room_intervals
    /\ IntervalRaises(datetime_to_minutes(start_time), datetime_to_minutes(end_time))

\* check_conflict's filter loop over the overlapping intervals
RECURSIVE filter_conflicts(_, _, _)
filter_conflicts(s, overlapping, exclude_id) ==
    IF overlapping = << >> THEN << >>
    ELSE (IF /\ Head(overlapping).data # None
             /\ (exclude_id = None
                 \/ s.resHeap[Head(overlapping).data].id # exclude_id)
             /\ s.resHeap[Head(overlapping).data].status
                    \notin {"CANCELLED", "COMPLETED"}
            THEN <<Head(overlapping).data>> ELSE << >>)
         \o filter_conflicts(s, Tail(overlapping), exclude_id)

\* the conflicting Reservation objects (addresses), in the order found
check_conflict(s, room_id, start_time, end_time, exclude_id) ==
    IF room_id \notin DOMAIN s.room_intervals THEN << >>
    ELSE With(find_overlapping(s.room_intervals[room_id],
                               Interval(datetime_to_minutes(start_time),
                                        datetime_to_minutes(end_time), None)),
              LAMBDA overlapping : filter_conflicts(s, overlapping, exclude_id))

\* the sweep of ReservationSystem.find_available_slots taking only gaps longer
\* than the minimum duration
RECURSIVE slots_sweep_longer_only(_, _, _, _)
slots_sweep_longer_only(active, current, end, duration_minutes) ==
    IF active = << >>
      THEN (IF current < end /\ end - current > duration_minutes * SecondsPerMinute
              THEN <<[start |-> current, end |-> end,
                      duration_minutes |-> (end - current) \div SecondsPerMinute]>>
              ELSE << >>)
    ELSE With(Head(active), LAMBDA res :
         (IF current < res.start
             /\ res.start - current > duration_minutes * SecondsPerMinute
            THEN <<[start |-> current, end |-> res.start,
                    duration_minutes |-> (res.start - current) \div SecondsPerMinute]>>
            ELSE << >>)
         \o slots_sweep_longer_only(Tail(active),
                                    IF res.end > current THEN res.end ELSE current,
                                    end, duration_minutes))

\* the loop of ReservationSystem.find_available_slots over the sorted active
\* bookings and the check of the last gap: the list of slots appended.  gap is
\* seconds / 60; gap >= duration_minutes is compared in seconds.
RECURSIVE slots_sweep(_, _, _, _)
slots_sweep(active, current, end, duration_minutes) ==
    IF active = << >>
      THEN (IF current < end /\ end - current >= duration_minutes * SecondsPerMinute
              THEN <<[start |-> current, end |-> end,
                      duration_minutes |-> (end - current) \div SecondsPerMinute]>>
              ELSE << >>)
    ELSE With(Head(active), LAMBDA res :
         (IF current < res.start
             /\ res.start - current >= duration_minutes * SecondsPerMinute
            THEN <<[start |-> current, end |-> res.start,
                    duration_minutes |-> (res.start - current) \div SecondsPerMinute]>>
            ELSE << >>)
         \o slots_sweep(Tail(active),
                        IF res.end > current THEN res.end ELSE current,
                        end, duration_minutes))

\* ReservationSystem.find_available_slots: the (start_time, end_time) of the
\* bookings that are not Cancelled among the overlapping intervals, sorted by
\* start, then the sweep.  quicksort picks its pivots at random; the order it
\* gives to equal starts does not change what the sweep appends.
system_find_available_slots(s, room_id, start, end, duration_minutes) ==
    IF room_id \notin DOMAIN s.room_intervals THEN << >>
    ELSE With(find_overlapping(s.room_intervals[room_id],
                               Interval(datetime_to_minutes(start),
                                        datetime_to_minutes(end), None)),
              LAMBDA existing :
         With(SelectSeq(existing, LAMBDA interval :
                  /\ interval.data # None
                  /\ s.resHeap[interval.data].status # "CANCELLED"),
              LAMBDA kept :
         With([i \in DOMAIN kept |->
                  [start |-> s.resHeap[kept[i].data].start_time,
                   end |-> s.resHeap[kept[i].data].end_time]],
              LAMBDA active :
              slots_sweep(sort_by_start(active), start, end, duration_minutes))))

\* search_rooms(capacity=capacity): the active rooms (addresses) of capacity
\* or more, sorted by capacity; rooms of one capacity are listed by id
RECURSIVE rooms_by_capacity(_, _)
rooms_by_capacity(s, ids) ==
    IF ids = {} THEN << >>
    ELSE With(CHOOSE id \in ids : \A other \in ids :
                  \/ s.roomHeap[s.rooms[id]].capacity < s.roomHeap[s.rooms[other]].capacity
                  \/ /\ s.roomHeap[s.rooms[id]].capacity = s.roomHeap[s.rooms[other]].capacity
                     /\ id <= other,
              LAMBDA first : <<s.rooms[first]>> \o rooms_by_capacity(s, ids \ {first}))

search_rooms(s, capacity) ==
    rooms_by_capacity(s, {id \in DOMAIN s.rooms :
                             /\ s.roomHeap[s.rooms[id]].is_active
                             /\ ~(capacity # 0 /\ s.roomHeap[s.rooms[id]].capacity < capacity)})

\* datetimes count seconds from 09:00 of the day the model's bookings lie in
SearchDays == 7
WorkStartHour == 9
WorkEndHour == 18
SlotsPerDay == 3
MaxAlternatives == 10
SecondsPerHour == 60 * SecondsPerMinute
SecondsPerDay == 24 * SecondsPerHour

\* the first loop of suggest_alternatives: up to three slots of each day.
\* check_date is start_time.date() + day_offset as a day number; day_start and
\* day_end are 09:00 and 18:00 of that day.
RECURSIVE same_room_alternatives(_, _, _, _, _)
same_room_alternatives(s, room_id, start_time, duration_minutes, day_offset) ==
    IF day_offset >= SearchDays THEN << >>
    ELSE With(((start_time + WorkStartHour * SecondsPerHour) \div SecondsPerDay)
                  + day_offset, LAMBDA check_date :
         With(check_date * SecondsPerDay, LAMBDA day_start :
         With(day_start + (WorkEndHour - WorkStartHour) * SecondsPerHour, LAMBDA day_end :
         With(system_find_available_slots(s, room_id, day_start, day_end,
                                          duration_minutes), LAMBDA available :
         With(SubSeq(available, 1,
                     IF Len(available) < SlotsPerDay THEN Len(available) ELSE SlotsPerDay),
              LAMBDA taken :
              [k \in DOMAIN taken |->
                  [room_id |-> room_id, start |-> taken[k].start, end |-> taken[k].end,
                   type |-> "same_room_different_time"]]
              \o same_room_alternatives(s, room_id, start_time, duration_minutes,
                                        day_offset + 1))))))

\* the second loop: the similar rooms free at the requested time
RECURSIVE other_room_alternatives(_, _, _, _, _)
other_room_alternatives(s, room_id, start_time, duration_minutes, similar_rooms) ==
    IF similar_rooms = << >> THEN << >>
    ELSE With(s.roomHeap[Head(similar_rooms)], LAMBDA other_room :
         (IF other_room.id # room_id
             /\ check_conflict(s, other_room.id, start_time,
                               start_time + duration_minutes * SecondsPerMinute, None)
                    = << >>
            THEN <<[room_id |-> other_room.id, start |-> start_time,
                    end |-> start_time + duration_minutes * SecondsPerMinute,
                    type |-> "different_room_same_time"]>>
            ELSE << >>)
         \o other_room_alternatives(s, room_id, start_time, duration_minutes,
                                    Tail(similar_rooms)))

\* suggest_alternatives: the list returned, or AttributeError when a slot was
\* found for a room that get_room does not find
suggest_alternatives(s, room_id, start_time, duration_minutes) ==
    With(same_room_alternatives(s, room_id, start_time, duration_minutes, 0), LAMBDA same :
    With(get_room(s, room_id), LAMBDA room :
    IF same # << >> /\ room = None THEN [ret |-> "AttributeError", alternatives |-> << >>]
    ELSE With(IF room = None THEN << >>
              ELSE other_room_alternatives(s, room_id, start_time, duration_minutes,
                       search_rooms(s, s.roomHeap[room].capacity)),
              LAMBDA others :
         With(same \o others, LAMBDA alternatives :
              [ret |-> "ok",
               alternatives |-> SubSeq(alternatives, 1,
                                       IF Len(alternatives) < MaxAlternatives
                                         THEN Len(alternatives) ELSE MaxAlternatives)]))))

\* Interval(minutes(start), minutes(end), reservation) of a Reservation object
res_interval_raises(r) ==
    IntervalRaises(datetime_to_minutes(r.start_time), datetime_to_minutes(r.end_time))

res_interval(r, a) ==
    Interval(datetime_to_minutes(r.start_time), datetime_to_minutes(r.end_time), a)

\* _room_intervals[room_id].insert(interval) / .delete(interval)
index_insert(s, room_id, interval) ==
    With(it_insert(s.room_intervals[room_id], interval), LAMBDA tree :
         [s EXCEPT !.room_intervals[room_id] = tree])

index_delete(s, room_id, interval) ==
    With(it_delete(s.room_intervals[room_id], interval), LAMBDA d :
         [s EXCEPT !.room_intervals[room_id] = d.tree])

\* create_reservation storing the booking before it checks for conflicts
create_reservation_store_first(s, reservation) ==
    With(get_room(s, reservation.room_id), LAMBDA room :
    IF room = None THEN Ret(s, "NotFound")
    ELSE IF ~s.roomHeap[room].is_active THEN Ret(s, "ResourceInactive")
    ELSE IF reservation.attendees > s.roomHeap[room].capacity
      THEN Ret(s, "CapacityExceeded")
    ELSE IF check_conflict_raises(s, reservation.room_id, reservation.start_time,
                                  reservation.end_time)
      THEN Ret(s, "ValueError")
    ELSE With(NewAddr(s.resHeap), LAMBDA a :
         With([s EXCEPT !.resHeap = DictSet(@, a, reservation),
                        !.reservations = DictSet(@, reservation.id, a),
                        !.reservation_tree = avl_insert(@, reservation.id, a)],
              LAMBDA s1 :
         IF check_conflict(s, reservation.room_id, reservation.start_time,
                           reservation.end_time, None) # << >>
           THEN Ret(s1, "Conflict")
         ELSE With(index_insert(s1, reservation.room_id, res_interval(reservation, a)),
                   LAMBDA s2 :
                   Ret(record_create(s2, "reservation", reservation.id,
                                     res_to_dict(reservation)), "ok")))))

\* create_reservation without the capacity check
create_reservation_any_headcount(s, reservation) ==
    With(get_room(s, reservation.room_id), LAMBDA room :
    IF room = None THEN Ret(s, "NotFound")
    ELSE IF ~s.roomHeap[room].is_active THEN Ret(s, "ResourceInactive")
    ELSE IF check_conflict_raises(s, reservation.room_id, reservation.start_time,
                                  reservation.end_time)
      THEN Ret(s, "ValueError")
    ELSE IF check_conflict(s, reservation.room_id, reservation.start_time,
                           reservation.end_time, None) # << >>
      THEN Ret(s, "Conflict")
    ELSE With(NewAddr(s.resHeap), LAMBDA a :
         With([s EXCEPT !.resHeap = DictSet(@, a, reservation),
                        !.reservations = DictSet(@, reservation.id, a),
                        !.reservation_tree = avl_insert(@, reservation.id, a)],
              LAMBDA s1 :
         IF res_interval_raises(reservation) THEN Ret(s1, "ValueError")
         ELSE With(index_insert(s1, reservation.room_id, res_interval(reservation, a)),
                   LAMBDA s2 :
                   Ret(record_create(s2, "reservation", reservation.id,
                                     res_to_dict(reservation)), "ok")))))

create_reservation(s, reservation) ==
    With(get_room(s, reservation.room_id), LAMBDA room :
    IF room = None THEN Ret(s, "NotFound")
    ELSE IF ~s.roomHeap[room].is_active THEN Ret(s, "ResourceInactive")
    ELSE IF reservation.attendees > s.roomHeap[room].capacity
      THEN Ret(s, "CapacityExceeded")
    ELSE IF check_conflict_raises(s, reservation.room_id, reservation.start_time,
                                  reservation.end_time)
      THEN Ret(s, "ValueError")
    ELSE IF check_conflict(s, reservation.room_id, reservation.start_time,
                           reservation.end_time, None) # << >>
      THEN Ret(s, "Conflict")
    ELSE With(NewAddr(s.resHeap), LAMBDA a :
         With([s EXCEPT !.resHeap = DictSet(@, a, reservation),
                        !.reservations = DictSet(@, reservation.id, a),
                        !.reservation_tree = avl_insert(@, reservation.id, a)],
              LAMBDA s1 :
         IF res_interval_raises(reservation) THEN Ret(s1, "ValueError")
         ELSE IF reservation.room_id \notin DOMAIN s1.room_intervals
           THEN Ret(s1, "KeyError")
         ELSE With(index_insert(s1, reservation.room_id, res_interval(reservation, a)),
                   LAMBDA s2 :
                   Ret(record_create(s2, "reservation", reservation.id,
                                     res_to_dict(reservation)), "ok")))))

\* setattr for every key of kwargs
apply_kwargs(r, kwargs) ==
    [f \in DOMAIN r |-> IF f \in DOMAIN kwargs THEN kwargs[f] ELSE r[f]]

touches_timing(kwargs) == (DOMAIN kwargs) \cap {"start_time", "end_time", "room_id"} # {}

\* update_reservation from the conflict check on: s2 has the old interval
\* removed and the patch applied to the object at a
update_reservation_check(s2, a, reservation_id, kwargs, old, old_interval) ==
    With(s2.resHeap[a], LAMBDA new :
    IF touches_timing(kwargs)
       /\ check_conflict_raises(s2, new.room_id, new.start_time, new.end_time)
      THEN Ret(s2, "ValueError")
    ELSE IF touches_timing(kwargs)
            /\ check_conflict(s2, new.room_id, new.start_time, new.end_time,
                              reservation_id) # << >>
      THEN With([s2 EXCEPT !.resHeap[a] = res_from_dict(res_to_dict(old))], LAMBDA s3 :
                Ret(index_insert(s3, old.room_id, old_interval), "Conflict"))
    ELSE IF res_interval_raises(new) THEN Ret(s2, "ValueError")
    ELSE IF new.room_id \notin DOMAIN s2.room_intervals THEN Ret(s2, "KeyError")
    ELSE With(index_insert(s2, new.room_id, res_interval(new, a)), LAMBDA s4 :
              Ret(record_update(s4, "reservation", reservation_id,
                                res_to_dict(old), res_to_dict(new)), "ok")))

update_reservation(s, reservation_id, kwargs) ==
    With(get_reservation(s, reservation_id), LAMBDA a :
    IF a = None THEN Ret(s, "NotFound")
    ELSE With(s.resHeap[a], LAMBDA old :
    IF res_interval_raises(old) THEN Ret(s, "ValueError")
    ELSE IF old.room_id \notin DOMAIN s.room_intervals THEN Ret(s, "KeyError")
    ELSE With(index_delete(s, old.room_id, res_interval(old, a)), LAMBDA s1 :
         With([s1 EXCEPT !.resHeap[a] = apply_kwargs(old, kwargs)], LAMBDA s2 :
              update_reservation_check(s2, a, reservation_id, kwargs, old,
                                       res_interval(old, a))))))

\* cancel_reservation notifying the waiting list before it changes anything
cancel_reservation_notifies_first(s, reservation_id) ==
    With(get_reservation(s, reservation_id), LAMBDA a :
    IF a = None THEN Ret(s, "NotFound")
    ELSE IF s.resHeap[a].status = "CANCELLED" THEN Ret(s, "AlreadyCancelled")
    ELSE With(notify_available(s, s.resHeap[a].room_id), LAMBDA s0 :
         With([s0 EXCEPT !.resHeap[a].status = "CANCELLED"], LAMBDA s1 :
         With(s1.resHeap[a], LAMBDA r :
         IF res_interval_raises(r) THEN Ret(s1, "ValueError")
         ELSE IF r.room_id \notin DOMAIN s1.room_intervals THEN Ret(s1, "KeyError")
         ELSE With(index_delete(s1, r.room_id, res_interval(r, a)), LAMBDA s2 :
                   Ret(record_update(s2, "reservation", reservation_id,
                                     res_to_dict(s.resHeap[a]), res_to_dict(r)),
                       "ok"))))))

cancel_reservation(s, reservation_id) ==
    With(get_reservation(s, reservation_id), LAMBDA a :
    IF a = None THEN Ret(s, "NotFound")
    ELSE IF s.resHeap[a].status = "CANCELLED" THEN Ret(s, "AlreadyCancelled")
    ELSE With([s EXCEPT !.resHeap[a].status = "CANCELLED"], LAMBDA s1 :
         With(s1.resHeap[a], LAMBDA r :
         IF res_interval_raises(r) THEN Ret(s1, "ValueError")
         ELSE IF r.room_id \notin DOMAIN s1.room_intervals THEN Ret(s1, "KeyError")
         ELSE With(index_delete(s1, r.room_id, res_interval(r, a)), LAMBDA s2 :
              With(record_update(s2, "reservation", reservation_id,
                                 res_to_dict(s.resHeap[a]), res_to_dict(r)), LAMBDA s3 :
                   Ret(notify_available(s3, r.room_id), "ok"))))))

delete_reservation(s, reservation_id) ==
    With(get_reservation(s, reservation_id), LAMBDA a :
    IF a = None THEN Ret(s, "False")
    ELSE With(s.resHeap[a], LAMBDA r :
    IF res_interval_raises(r) THEN Ret(s, "ValueError")
    ELSE IF r.room_id \notin DOMAIN s.room_intervals THEN Ret(s, "KeyError")
    ELSE With(index_delete(s, r.room_id, res_interval(r, a)), LAMBDA s1 :
         IF reservation_id \notin DOMAIN s1.reservations THEN Ret(s1, "KeyError")
         ELSE With([s1 EXCEPT !.reservations = DictDel(@, reservation_id),
                              !.reservation_tree = avl_delete(@, reservation_id)],
                   LAMBDA s2 :
                   Ret(record_delete(s2, "reservation", reservation_id, res_to_dict(r)),
                       "True")))))

\* ------------------------------------------------------- undo/redo replay
force_delete_reservation(s, reservation_id) ==
    IF reservation_id \notin DOMAIN s.reservations THEN Ret(s, "ok")
    ELSE With(s.reservations[reservation_id], LAMBDA a :
         With(s.resHeap[a], LAMBDA res :
         IF res_interval_raises(res) THEN Ret(s, "ValueError")
         ELSE With(IF res.room_id \in DOMAIN s.room_intervals
                     THEN index_delete(s, res.room_id, res_interval(res, a))
                     ELSE s, LAMBDA s1 :
                   Ret([s1 EXCEPT !.reservations = DictDel(@, reservation_id),
                                  !.reservation_tree = avl_delete(@, reservation_id)],
                       "ok"))))

force_delete_room(s, room_id) ==
    IF room_id \notin DOMAIN s.rooms THEN Ret(s, "ok")
    ELSE Ret([s EXCEPT !.rooms = DictDel(@, room_id),
                       !.room_tree = avl_delete(@, room_id),
                       !.room_intervals = DictDel(@, room_id)], "ok")

\* the tail of _restore_reservation: insert the interval of the new object
restore_insert_interval(s2, reservation, a) ==
    IF res_interval_raises(reservation) THEN Ret(s2, "ValueError")
    ELSE IF reservation.room_id \in DOMAIN s2.room_intervals
      THEN Ret(index_insert(s2, reservation.room_id, res_interval(reservation, a)), "ok")
    ELSE Ret(s2, "ok")

restore_reservation(s, reservation_id, state, create) ==
    With(res_from_dict(state), LAMBDA reservation :
    With(NewAddr(s.resHeap), LAMBDA a :
    With([s EXCEPT !.resHeap = DictSet(@, a, reservation)], LAMBDA s0 :
    IF create \/ reservation_id \notin DOMAIN s0.reservations
      THEN With([s0 EXCEPT !.reservations = DictSet(@, reservation_id, a),
                           !.reservation_tree = avl_insert(@, reservation_id, a)],
                LAMBDA s2 : restore_insert_interval(s2, reservation, a))
    ELSE With(s0.reservations[reservation_id], LAMBDA b :
         With(s0.resHeap[b], LAMBDA old_res :
         IF res_interval_raises(old_res) THEN Ret(s0, "ValueError")
         ELSE IF old_res.room_id \notin DOMAIN s0.room_intervals
           THEN Ret(s0, "KeyError")
         ELSE With(index_delete(s0, old_res.room_id, res_interval(old_res, b)),
                   LAMBDA s1 :
              With([s1 EXCEPT !.reservations = DictSet(@, reservation_id, a)],
                   LAMBDA s2 : restore_insert_interval(s2, reservation, a))))))))

restore_room(s, room_id, state, create) ==
    With(room_from_dict(state), LAMBDA room :
    With(NewAddr(s.roomHeap), LAMBDA a :
    With([s EXCEPT !.roomHeap = DictSet(@, a, room)], LAMBDA s0 :
    IF create \/ room_id \notin DOMAIN s0.rooms
      THEN Ret([s0 EXCEPT !.rooms = DictSet(@, room_id, a),
                          !.room_tree = avl_insert(@, room_id, a),
                          !.room_intervals =
                              IF room_id \notin DOMAIN @
                                THEN DictSet(@, room_id, IntervalTree) ELSE @], "ok")
    ELSE Ret([s0 EXCEPT !.rooms = DictSet(@, room_id, a)], "ok"))))

\* a BATCH action matches none of the three branches
apply_undo_action(s, action) ==
    IF action.action_type = "CREATE"
      THEN IF action.entity_type = "reservation"
             THEN force_delete_reservation(s, action.entity_id)
           ELSE IF action.entity_type = "room"
             THEN force_delete_room(s, action.entity_id)
           ELSE Ret(s, "ok")
    ELSE IF action.action_type = "UPDATE"
      THEN IF action.entity_type = "reservation"
             THEN restore_reservation(s, action.entity_id, action.old_state, FALSE)
           ELSE IF action.entity_type = "room"
             THEN restore_room(s, action.entity_id, action.old_state, FALSE)
           ELSE Ret(s, "ok")
    ELSE IF action.action_type = "DELETE"
      THEN IF action.entity_type = "reservation"
             THEN restore_reservation(s, action.entity_id, action.old_state, TRUE)
           ELSE IF action.entity_type = "room"
             THEN restore_room(s, action.entity_id, action.old_state, TRUE)
           ELSE Ret(s, "ok")
    ELSE Ret(s, "ok")

apply_redo_action(s, action) ==
    IF action.action_type = "CREATE"
      THEN IF action.entity_type = "reservation"
             THEN restore_reservation(s, action.entity_id, action.new_state, TRUE)
           ELSE IF action.entity_type = "room"
             THEN restore_room(s, action.entity_id, action.new_state, TRUE)
           ELSE Ret(s, "ok")
    ELSE IF action.action_type = "UPDATE"
      THEN IF action.entity_type = "reservation"
             THEN restore_reservation(s, action.entity_id, action.new_state, FALSE)
           ELSE IF action.entity_type = "room"
             THEN restore_room(s, action.entity_id, action.new_state, FALSE)
           ELSE Ret(s, "ok")
    ELSE IF action.action_type = "DELETE"
      THEN IF action.entity_type = "reservation"
             THEN force_delete_reservation(s, action.entity_id)
           ELSE IF action.entity_type = "room"
             THEN force_delete_room(s, action.entity_id)
           ELSE Ret(s, "ok")
    ELSE Ret(s, "ok")

undo(s) ==
    With(manager_undo(s), LAMBDA m :
         IF m.action = NoState THEN Ret(s, "None")
         ELSE apply_undo_action(m.s, m.action))

redo(s) ==
    With(manager_redo(s), LAMBDA m :
         IF m.action = NoState THEN Ret(s, "None")
         ELSE apply_redo_action(m.s, m.action))

\* ================================================================== state
VARIABLES
    rooms,             \* _rooms: room id -> Room object
    room_tree,         \* _room_tree: AVL tree of room id -> Room object
    roomHeap,          \* the Room objects
    reservations,      \* _reservations: reservation id -> Reservation object
    reservation_tree,  \* _reservation_tree: AVL tree of id -> Reservation object
    resHeap,           \* the Reservation objects
    room_intervals,    \* _room_intervals: room id -> IntervalTree
    undo_stack,        \* _undo_manager._undo_stack._items
    redo_stack,        \* _undo_manager._redo_stack._items
    batch_mode,        \* _undo_manager._batch_mode
    batch_actions,     \* _undo_manager._batch_actions
    last,              \* the most recent call: name, input class, outcome
    before,            \* what a caller observed before the last logged call
    batch_hist,        \* what a caller observed at begin_batch, and the calls since
    ops,               \* number of calls made
    limit,             \* number of calls explored
    notified,          \* the calls the latest call made on the waiting list
    tree,              \* an IntervalTree used on its own
    tree_bag,          \* the (start, end) pairs inserted into it and not deleted
    tree_ops,          \* number of calls made on it
    avl,               \* an AVLTree used on its own
    avl_map,           \* key -> value as inserted into it and not deleted
    avl_ops,           \* number of calls made on it
    avl_last           \* the latest call made on it and what it returned

sysvars == <<rooms, room_tree, roomHeap, reservations, reservation_tree, resHeap,
             room_intervals, undo_stack, redo_stack, batch_mode, batch_actions>>

histvars == <<last, before, batch_hist, ops, limit, notified>>

treevars == <<tree, tree_bag, tree_ops>>

avlvars == <<avl, avl_map, avl_ops, avl_last>>

vars == <<rooms, room_tree, roomHeap, reservations, reservation_tree, resHeap,
          room_intervals, undo_stack, redo_stack, batch_mode, batch_actions,
          last, before, batch_hist, ops, limit, notified, tree, tree_bag, tree_ops,
          avl, avl_map, avl_ops, avl_last>>

Cur ==
    [rooms |-> rooms, room_tree |-> room_tree, roomHeap |-> roomHeap,
     reservations |-> reservations, reservation_tree |-> reservation_tree,
     resHeap |-> resHeap, room_intervals |-> room_intervals,
     undo_stack |-> undo_stack, redo_stack |-> redo_stack,
     batch_mode |-> batch_mode, batch_actions |-> batch_actions,
     notified |-> << >>]

Range(f) == {f[x] : x \in DOMAIN f}

RECURSIVE it_datas(_)
it_datas(node) ==
    IF node = ItNil THEN {}
    ELSE {node.interval.data} \cup it_datas(node.left) \cup it_datas(node.right)

\* objects no dictionary, tree or interval refers to any more are collected
Collect(s) ==
    With(Range(s.reservations) \cup avl_values(s.reservation_tree.root)
         \cup UNION {it_datas(s.room_intervals[r].root) : r \in DOMAIN s.room_intervals},
         LAMBDA resRefs :
    With(Range(s.rooms) \cup avl_values(s.room_tree.root), LAMBDA roomRefs :
         [s EXCEPT !.resHeap = [a \in (DOMAIN @) \cap resRefs |-> @[a]],
                   !.roomHeap = [a \in (DOMAIN @) \cap roomRefs |-> @[a]]]))

\* ---------------------------------------------------- what a caller observes
\* the room catalog as get_room returns it
RoomCatalog(s) ==
    [id \in avl_keys(s.room_tree.root) |-> s.roomHeap[get_room(s, id)]]

\* the booking catalog as get_reservation returns it
BookingCatalog(s) ==
    [id \in avl_keys(s.reservation_tree.root) |-> s.resHeap[get_reservation(s, id)]]

\* the bookings as search_reservations and the reports iterate over them
ListedBookings(s) ==
    [id \in DOMAIN s.reservations |-> s.resHeap[s.reservations[id]]]

\* the stored intervals of one index, each with the booking it refers to
StoredEntries(s, seq) ==
    [i \in 1..Len(seq) |-> <<seq[i].start, seq[i].end, s.resHeap[seq[i].data]>>]

StoredIntervals(s, index) ==
    With(get_all_intervals(index), LAMBDA seq :
    With(StoredEntries(s, seq), LAMBDA entries :
         [e \in Range(entries) |-> Cardinality({i \in DOMAIN entries : entries[i] = e})]))

IntervalIndexes(s) ==
    [r \in DOMAIN s.room_intervals |-> StoredIntervals(s, s.room_intervals[r])]

View(s) ==
    [rooms |-> RoomCatalog(s), bookings |-> BookingCatalog(s),
     intervals |-> IntervalIndexes(s)]

\* -------------------------------------------------------------------- inputs
RoomIds == 1..MaxRooms
ResIds == 1..MaxRes
\* [0,1) [1,2) [0,2): adjacent, nested and overlapping; [1,1): empty;
\* [2,1): inverted
SlotMinutes == {<<0, 1>>, <<1, 2>>, <<0, 2>>, <<1, 1>>, <<2, 1>>}
Slots == {<<p[1] * SecondsPerMinute, p[2] * SecondsPerMinute>> : p \in SlotMinutes}
RoomCapacity == MaxAttendees - 1
TreePoints == 0..MaxPoint
\* the payload of the next interval inserted: its serial number
TreeData == tree_ops + 1

NewReservations ==
    {Reservation(id, room_id, sl[1], sl[2], "CONFIRMED", "t0", 1) :
        id \in ResIds, room_id \in RoomIds, sl \in Slots}
    \cup {Reservation(id, room_id, 0, SecondsPerMinute, "CONFIRMED", "t0", MaxAttendees) :
        id \in ResIds, room_id \in RoomIds}

Kwargs ==
    {[title |-> "t1"]}
    \cup {[status |-> st] : st \in {"CONFIRMED", "COMPLETED"}}
    \cup {[room_id |-> r] : r \in RoomIds}
    \cup {[start_time |-> sl[1], end_time |-> sl[2]] : sl \in Slots}

NoArg == [nil |-> TRUE]

\* the calls that log a command when they succeed
Mutations ==
    {"add_room", "update_room", "delete_room", "create_reservation",
     "update_reservation", "cancel_reservation", "delete_reservation"}

Succeeded(ret) == ret \in {"ok", "True"}

\* chain: 1 after a successful mutation outside a batch, 2 after an undo that
\* directly follows it, 3 after a redo that directly follows that undo
Chain(op, ret) ==
    IF op \in Mutations /\ Succeeded(ret) /\ ~batch_mode THEN 1
    ELSE IF op = "undo" /\ ret = "ok" /\ last.chain = 1 THEN 2
    ELSE IF op = "redo" /\ ret = "ok" /\ last.chain = 2 THEN 3
    ELSE 0

Call(op, kind, ret) ==
    [op |-> op, kind |-> kind, ret |-> ret, chain |-> Chain(op, ret)]

\* before: after a logged mutation, what was observed before it; after the undo
\* that directly follows, what was observed after the mutation
Before(op, ret, cur) ==
    IF Chain(op, ret) \in {1, 2} THEN View(cur) ELSE NoArg

\* batch_hist: the view at begin_batch, the number of successful mutations
\* buffered since, and whether nothing else was called in between
BatchHist(op, ret, cur) ==
    IF op = "begin_batch" THEN [view |-> View(cur), n |-> 0, clean |-> TRUE]
    ELSE IF batch_hist = NoArg THEN NoArg
    ELSE IF batch_mode /\ op = "end_batch" THEN batch_hist
    ELSE IF batch_mode /\ op \in Mutations /\ Succeeded(ret)
      THEN [batch_hist EXCEPT !.n = @ + 1]
    ELSE IF batch_mode THEN [batch_hist EXCEPT !.clean = FALSE]
    ELSE NoArg

Constructed ==
    /\ rooms = ReservationSystem.rooms
    /\ room_tree = ReservationSystem.room_tree
    /\ roomHeap = ReservationSystem.roomHeap
    /\ reservations = ReservationSystem.reservations
    /\ reservation_tree = ReservationSystem.reservation_tree
    /\ resHeap = ReservationSystem.resHeap
    /\ room_intervals = ReservationSystem.room_intervals
    /\ undo_stack = ReservationSystem.undo_stack
    /\ redo_stack = ReservationSystem.redo_stack
    /\ batch_mode = ReservationSystem.batch_mode
    /\ batch_actions = ReservationSystem.batch_actions
    /\ notified = ReservationSystem.notified
    /\ last = [op |-> "init", kind |-> "none", ret |-> "ok", chain |-> 0]
    /\ before = NoArg
    /\ batch_hist = NoArg
    /\ ops = 0
    /\ tree = IntervalTree
    /\ tree_bag = EmptyBag
    /\ tree_ops = 0
    /\ avl = AVLTree
    /\ avl_map = EmptyDict
    /\ avl_ops = 0
    /\ avl_last = [op |-> "none", key |-> None, ret |-> "None"]

Init == Constructed /\ limit = MaxOps

\* one call of a method on the state cur: r is what it left behind
Step(op, kind, cur, r) ==
    /\ ops' = ops + 1
    /\ limit' = limit
    /\ \E s \in {Collect(r.s)} :
        /\ rooms' = s.rooms
        /\ room_tree' = s.room_tree
        /\ roomHeap' = s.roomHeap
        /\ reservations' = s.reservations
        /\ reservation_tree' = s.reservation_tree
        /\ resHeap' = s.resHeap
        /\ room_intervals' = s.room_intervals
        /\ undo_stack' = s.undo_stack
        /\ redo_stack' = s.redo_stack
        /\ batch_mode' = s.batch_mode
        /\ batch_actions' = s.batch_actions
        /\ notified' = s.notified
    /\ last' = Call(op, kind, r.ret)
    /\ before' = Before(op, r.ret, cur)
    /\ batch_hist' = BatchHist(op, r.ret, cur)
    /\ UNCHANGED <<treevars, avlvars>>

\* the class of a create_reservation input
CreateKind(cur, reservation) ==
    IF reservation.room_id \notin DOMAIN cur.rooms THEN "room_missing"
    ELSE IF ~cur.roomHeap[cur.rooms[reservation.room_id]].is_active THEN "room_inactive"
    ELSE IF reservation.start_time > reservation.end_time THEN "inverted"
    ELSE IF reservation.start_time = reservation.end_time THEN "empty"
    ELSE IF reservation.attendees > RoomCapacity THEN "crowded"
    ELSE "valid"

\* the class of an update_reservation patch
KwargsKind(cur, kwargs) ==
    IF "room_id" \in DOMAIN kwargs
      THEN IF kwargs.room_id \in DOMAIN cur.rooms THEN "room" ELSE "room_missing"
    ELSE IF "start_time" \in DOMAIN kwargs
      THEN IF kwargs.start_time > kwargs.end_time THEN "time_inverted"
           ELSE IF kwargs.start_time = kwargs.end_time THEN "time_empty"
           ELSE "time"
    ELSE IF "status" \in DOMAIN kwargs THEN "status"
    ELSE "title"

\* add_room(Room(id, ...)) called in the current state
AddRoomCall(id) ==
    \E cur \in {Cur} :
    \E r \in {add_room(cur, Room(id, RoomCapacity, "MEETING", TRUE))} :
        Step("add_room", "none", cur, r)

AddRoom ==
    /\ ops < limit
    /\ \E id \in RoomIds : AddRoomCall(id)

UpdateRoom ==
    /\ ops < limit
    /\ \E id \in RoomIds : \E cur \in {Cur} :
       \E r \in {update_room(cur, id, FALSE)} :
           Step("update_room", "deactivate", cur, r)

\* delete_room(id) called in the current state
DeleteRoomCall(id) ==
    \E cur \in {Cur} : \E r \in {delete_room(cur, id)} :
        Step("delete_room", "none", cur, r)

DeleteRoom ==
    /\ ops < limit
    /\ \E id \in RoomIds : DeleteRoomCall(id)

\* create_reservation(reservation) called in the current state
CreateCall(reservation) ==
    \E cur \in {Cur} : \E r \in {create_reservation(cur, reservation)} :
        Step("create_reservation", CreateKind(cur, reservation), cur, r)

CreateReservation ==
    /\ ops < limit
    /\ \E reservation \in NewReservations : CreateCall(reservation)

UpdateReservation ==
    /\ ops < limit
    /\ \E id \in ResIds, kwargs \in Kwargs : \E cur \in {Cur} :
       \E r \in {update_reservation(cur, id, kwargs)} :
           Step("update_reservation", KwargsKind(cur, kwargs), cur, r)

\* cancel_reservation(id) called in the current state
CancelCall(id) ==
    \E cur \in {Cur} : \E r \in {cancel_reservation(cur, id)} :
        Step("cancel_reservation", "none", cur, r)

CancelReservation ==
    /\ ops < limit
    /\ \E id \in ResIds : CancelCall(id)

DeleteReservation ==
    /\ ops < limit
    /\ \E id \in ResIds : \E cur \in {Cur} :
       \E r \in {delete_reservation(cur, id)} :
           Step("delete_reservation", "none", cur, r)

Undo ==
    /\ ops < limit
    /\ \E cur \in {Cur} : \E r \in {undo(cur)} : Step("undo", "none", cur, r)

Redo ==
    /\ ops < limit
    /\ \E cur \in {Cur} : \E r \in {redo(cur)} : Step("redo", "none", cur, r)

BeginBatch ==
    /\ ops < limit
    /\ \E cur \in {Cur} : \E r \in {Ret(begin_batch(cur), "ok")} :
           Step("begin_batch", "none", cur, r)

EndBatch ==
    /\ ops < limit
    /\ \E cur \in {Cur} : \E r \in {Ret(end_batch(cur), "ok")} :
           Step("end_batch", "none", cur, r)

Next ==
    \/ AddRoom
    \/ UpdateRoom
    \/ DeleteRoom
    \/ CreateReservation
    \/ UpdateReservation
    \/ CancelReservation
    \/ DeleteReservation
    \/ Undo
    \/ Redo
    \/ BeginBatch
    \/ EndBatch

Spec == Init /\ [][Next]_vars

\* ------------------------------------------------ batches, explored deeper
BatchInit == Constructed /\ limit = MaxBatchOps

BatchNext ==
    \/ AddRoom
    \/ CreateReservation
    \/ BeginBatch
    \/ EndBatch
    \/ Undo

BatchSpec == BatchInit /\ [][BatchNext]_vars

\* ------------------------------------------- the interval tree on its own
TreeInsert ==
    /\ tree_ops < MaxTreeOps
    /\ \E st \in TreePoints, en \in TreePoints :
        /\ ~IntervalRaises(st, en)
        /\ \E t \in {it_insert(tree, Interval(st, en, TreeData))} : tree' = t
        /\ tree_bag' = tree_bag (+) SetToBag({<<st, en>>})
    /\ tree_ops' = tree_ops + 1
    /\ UNCHANGED <<sysvars, histvars, avlvars>>

\* delete(Interval(st, en)) called on the tree
TreeDeleteCall(st, en) ==
    /\ \E d \in {it_delete(tree, Interval(st, en, None))} :
        /\ tree' = d.tree
        /\ tree_bag' = IF d.ok THEN tree_bag (-) SetToBag({<<st, en>>})
                               ELSE tree_bag
    /\ tree_ops' = tree_ops + 1
    /\ UNCHANGED <<sysvars, histvars, avlvars>>

TreeDelete ==
    /\ tree_ops < MaxTreeOps
    /\ \E st \in TreePoints, en \in TreePoints :
        /\ ~IntervalRaises(st, en)
        /\ TreeDeleteCall(st, en)

TreeNext ==
    \/ TreeInsert
    \/ TreeDelete

TreeSpec == Init /\ [][TreeNext]_vars

\* ------------------------------------------------ the AVL tree on its own
AvlKeys == 1..MaxKey
\* the value of the next insert: its serial number
AvlValue == avl_ops + 1

AvlInsert ==
    /\ avl_ops < MaxAvlOps
    /\ \E key \in AvlKeys :
        /\ \E t \in {avl_insert(avl, key, AvlValue)} : avl' = t
        /\ avl_map' = DictSet(avl_map, key, AvlValue)
        /\ avl_last' = [op |-> "insert", key |-> key, ret |-> "None"]
    /\ avl_ops' = avl_ops + 1
    /\ UNCHANGED <<sysvars, histvars, treevars>>

\* delete(key) called on the tree
AvlDeleteCall(key) ==
    /\ \E t \in {avl_delete(avl, key)} : avl' = t
    /\ avl_map' = DictDel(avl_map, key)
    /\ avl_ops' = avl_ops + 1
    /\ avl_last' = [op |-> "delete", key |-> key,
                    ret |-> IF avl_delete_returns(avl, key) THEN "True" ELSE "False"]
    /\ UNCHANGED <<sysvars, histvars, treevars>>

AvlDelete ==
    /\ avl_ops < MaxAvlOps
    /\ \E key \in AvlKeys : AvlDeleteCall(key)

AvlNext ==
    \/ AvlInsert
    \/ AvlDelete

AvlSpec == Init /\ [][AvlNext]_vars

\* ------------------------------------------------ either tree on its own
\* the two trees are separate objects: a behaviour works on one of them
IndexNext ==
    \/ tree_ops = 0 /\ AvlInsert
    \/ tree_ops = 0 /\ AvlDelete
    \/ avl_ops = 0 /\ TreeInsert
    \/ avl_ops = 0 /\ TreeDelete

IndexSpec == Init /\ [][IndexNext]_vars

TypeOK ==
    /\ ops \in 0..limit
    /\ tree_ops \in 0..MaxTreeOps
    /\ avl_ops \in 0..MaxAvlOps

\* ================================================================= claims
Overlapping(a, b) == a.start_time < b.end_time /\ b.start_time < a.end_time

\* two bookings of the catalog on one room, neither with a status in
\* excluded, whose intervals overlap
DoubleBooked(cat, excluded) ==
    \E x, y \in DOMAIN cat :
        /\ x # y
        /\ cat[x].room_id = cat[y].room_id
        /\ cat[x].status \notin excluded
        /\ cat[y].status \notin excluded
        /\ Overlapping(cat[x], cat[y])

\* C1: in every state observable between ledger calls, no two bookings on the
\* same room whose status is not Cancelled have overlapping half-open intervals.
C1_NoDoubleBooking ==
    \E cat \in {BookingCatalog(Cur)} : ~DoubleBooked(cat, {"CANCELLED"})

\* the same with Completed bookings set aside as well: no two bookings that
\* still take part in conflict checks overlap
NoActiveDoubleBooking ==
    \E cat \in {BookingCatalog(Cur)} : ~DoubleBooked(cat, {"CANCELLED", "COMPLETED"})

\* C2: a create_reservation that ends with Conflict changes nothing: the
\* catalogs, every interval index and the undo and redo stacks are as before.
C2_ConflictLeavesStateUnchanged ==
    [][(last'.op = "create_reservation" /\ last'.ret = "Conflict")
       => (UNCHANGED sysvars /\ View(Cur)' = View(Cur))]_vars

\* a create was refused with Conflict while the undo stack held commands
C2_Witness ==
    /\ last.op = "create_reservation"
    /\ last.ret = "Conflict"
    /\ undo_stack # << >>
    /\ DOMAIN BookingCatalog(Cur) # {}

\* C3: undo() directly after one successful mutation M (add or remove room,
\* create, update or cancel booking) made in state S gives back the room
\* catalog, the booking catalog as looked up by id, and the interval indexes of S.
C3_UndoRoundTrip ==
    [][(/\ last.chain = 1
        /\ last.op \in {"add_room", "delete_room", "create_reservation",
                        "update_reservation", "cancel_reservation"}
        /\ last'.op = "undo")
       => (last'.ret = "ok" /\ View(Cur)' = before)]_vars

\* C4: after M; undo(), a redo() gives back the catalogs and interval indexes
\* that held right after M.
C4_RedoRoundTrip ==
    [][(last.chain = 2 /\ last'.op = "redo")
       => (last'.ret = "ok" /\ View(Cur)' = before)]_vars

\* C5: after begin_batch(); op1; op2; op3; end_batch() with three successful
\* operations and nothing else in between, one undo() gives back the catalogs
\* and interval indexes that held at begin_batch().
C5_BatchUndoRevertsAll ==
    [][(/\ last.op = "end_batch"
        /\ batch_hist # NoArg
        /\ batch_hist.clean
        /\ batch_hist.n = 3
        /\ last'.op = "undo")
       => View(Cur)' = batch_hist.view]_vars

\* the bookings check_conflicts is to return for a query
ExpectedConflicts(cat, room_id, start_time, end_time, exclude_id) ==
    {cat[id] : id \in {i \in DOMAIN cat :
        /\ cat[i].room_id = room_id
        /\ cat[i].status \notin {"CANCELLED", "COMPLETED"}
        /\ cat[i].id # exclude_id
        /\ cat[i].start_time < end_time
        /\ start_time < cat[i].end_time}}

\* the bookings check_conflict returns, in order
ReturnedConflicts(cur, room_id, start_time, end_time, exclude_id) ==
    With(check_conflict(cur, room_id, start_time, end_time, exclude_id), LAMBDA found :
         [i \in 1..Len(found) |-> cur.resHeap[found[i]]])

ProperSlots == {sl \in Slots : sl[1] < sl[2]}

\* C6: in every reachable state, for every room, query interval and excluded
\* id, check_conflict returns exactly the catalog's bookings on that room that
\* are neither Cancelled nor Completed, are not the excluded one and overlap
\* the query, each once.
C6_CheckConflictExact ==
    \E cur \in {Cur} : \E cat \in {BookingCatalog(cur)} :
        \A room_id \in RoomIds, sl \in ProperSlots, exclude_id \in ResIds \cup {None} :
            \E found \in {ReturnedConflicts(cur, room_id, sl[1], sl[2], exclude_id)} :
            \E expected \in {ExpectedConflicts(cat, room_id, sl[1], sl[2], exclude_id)} :
                /\ Range(found) = expected
                /\ Len(found) = Cardinality(expected)

\* the elements of a sequence, with multiplicity
SeqBag(seq) ==
    [e \in Range(seq) |-> Cardinality({i \in DOMAIN seq : seq[i] = e})]

\* the brute-force scan: every stored interval i with i.start < query.end and
\* query.start < i.end
BruteForce(stored, query) ==
    SelectSeq(stored, LAMBDA i : i.start < query.end /\ query.start < i.end)

\* C7: whatever inserts and deletes built the tree, for every query
\* find_overlapping returns exactly the stored intervals i with
\* i.start < query.end and query.start < i.end, as a brute-force scan of the
\* stored intervals does; intervals that only touch the query at an endpoint
\* are not returned.
C7_OverlapsMatchBruteForce ==
    \E stored \in {get_all_intervals(tree)} :
        \A qs \in TreePoints, qe \in TreePoints :
            ~IntervalRaises(qs, qe)
            => \E query \in {Interval(qs, qe, None)} :
                   SeqBag(find_overlapping(tree, query))
                       = SeqBag(BruteForce(stored, query))

\* after inserts and a delete that removed an interval, the tree holds three
\* or more intervals, and some query finds one of them while another stored
\* interval only touches the query at an endpoint
C7_Witness ==
    /\ tree.size >= 3
    /\ tree_ops - tree.size >= 2
    /\ BagCardinality(tree_bag) = tree.size
    /\ \E stored \in {get_all_intervals(tree)} :
       \E qs \in TreePoints, qe \in TreePoints :
        /\ qs < qe
        /\ find_overlapping(tree, Interval(qs, qe, None)) # << >>
        /\ \E i \in Range(stored) : i.start < i.end /\ (i.end = qs \/ i.start = qe)

\* C8: an update_reservation that ends with Conflict leaves the booking's
\* fields, the stored intervals of every index and the undo and redo stacks
\* exactly as before the call, whatever the booking's status.
C8_UpdateConflictRevertsAll ==
    [][(last'.op = "update_reservation" /\ last'.ret = "Conflict")
       => (View(Cur)' = View(Cur) /\ UNCHANGED <<undo_stack, redo_stack>>)]_vars

\* C9: an update_reservation that does not succeed ends with a typed error and
\* leaves the catalogs and every interval index unchanged; a patch to a room
\* that does not exist, or to start >= end, does not succeed.
C9_UpdateFailureLeavesNoTrace ==
    [][(last'.op = "update_reservation")
       => /\ last'.kind \in {"room_missing", "time_inverted", "time_empty"}
             => last'.ret # "ok"
          /\ last'.ret # "ok"
             => /\ last'.ret \in {"NotFound", "Conflict", "InvalidInterval"}
                /\ View(Cur)' = View(Cur)]_vars

\* C10: a create_reservation on an existing, active room with start >= end
\* ends with InvalidInterval and changes nothing; every booking of the catalog
\* has start < end.
C10_CreateRejectsInvalidInterval ==
    [][/\ (last'.op = "create_reservation" /\ last'.kind \in {"inverted", "empty"})
          => (last'.ret = "InvalidInterval" /\ UNCHANGED sysvars)
       /\ \A b \in Range(BookingCatalog(Cur)') : b.start_time < b.end_time]_vars

\* C11: a create_reservation whose id is already in the booking catalog, and
\* which is otherwise acceptable (room known and active, start < end, attendees
\* within capacity, no conflict found), ends with DuplicateId and changes
\* nothing: the booking stored under the id, the interval indexes and the
\* number of bookings are as before.
C11_CreateRejectsDuplicateId ==
    [][last'.op = "create_reservation" /\ last'.kind = "valid"
       => \A reservation \in NewReservations :
              (/\ reservation.id \in DOMAIN BookingCatalog(Cur)
               /\ check_conflict(Cur, reservation.room_id, reservation.start_time,
                                 reservation.end_time, None) = << >>
               /\ CreateCall(reservation))
              => /\ last'.ret = "DuplicateId"
                 /\ UNCHANGED sysvars
                 /\ View(Cur)' = View(Cur)]_vars

\* the room a booking names is missing from the room catalog, inactive, or too
\* small for the booking's attendees
Unfit(cat, reservation) ==
    \/ reservation.room_id \notin DOMAIN cat
    \/ ~cat[reservation.room_id].is_active
    \/ reservation.attendees > cat[reservation.room_id].capacity

\* C12: in every reachable state and for every booking, a create_reservation
\* whose room is missing, inactive or too small for the attendees fails with
\* the matching error and changes nothing (catalogs, interval indexes, undo
\* and redo stacks); a create_reservation succeeds only if the room exists, is
\* active, holds the attendees and check_conflict finds no conflict.
C12_CreateValidatesRoom ==
    \E cur \in {Cur} : \E cat \in {RoomCatalog(cur)} :
    \A reservation \in NewReservations :
    \E r \in {create_reservation(cur, reservation)} :
        /\ Unfit(cat, reservation)
           => /\ r.ret \in {"NotFound", "ResourceInactive", "CapacityExceeded"}
              /\ r.s = cur
        /\ r.ret = "ok"
           => /\ ~Unfit(cat, reservation)
              /\ check_conflict(cur, reservation.room_id, reservation.start_time,
                                reservation.end_time, None) = << >>

\* a create was refused for an inactive room while the ledger held a booking
\* and logged commands
C12_Witness ==
    /\ last.op = "create_reservation"
    /\ last.ret = "ResourceInactive"
    /\ undo_stack # << >>
    /\ DOMAIN BookingCatalog(Cur) # {}

\* the stored entry of booking b in its room's interval index
EntryOf(b) ==
    <<datetime_to_minutes(b.start_time), datetime_to_minutes(b.end_time), b>>

\* this step marked booking id, b before the step, as Cancelled
CancelSetsStatus(id, b) ==
    BookingCatalog(Cur)' = [BookingCatalog(Cur) EXCEPT ![id].status = "CANCELLED"]

\* this step took the entry of b, and nothing else, out of the interval indexes
CancelRemovesInterval(b) ==
    /\ b.room_id \in DOMAIN IntervalIndexes(Cur)
    /\ IntervalIndexes(Cur)' =
           [IntervalIndexes(Cur) EXCEPT ![b.room_id] = @ (-) SetToBag({EntryOf(b)})]

\* this step logged one command of the given type for the entity: on the undo
\* stack, or in the open batch
LoggedOne(action_type, entity_type, entity_id) ==
    IF batch_mode
      THEN /\ UNCHANGED <<undo_stack, redo_stack>>
           /\ Len(batch_actions') = Len(batch_actions) + 1
           /\ SubSeq(batch_actions', 1, Len(batch_actions)) = batch_actions
           /\ \E cmd \in {batch_actions'[Len(batch_actions')]} :
                  /\ cmd.action_type = action_type
                  /\ cmd.entity_type = entity_type
                  /\ cmd.entity_id = entity_id
      ELSE /\ UNCHANGED batch_actions
           /\ Len(undo_stack') = Len(undo_stack) + 1
           /\ SubSeq(undo_stack', 1, Len(undo_stack)) = undo_stack
           /\ \E cmd \in {undo_stack'[Len(undo_stack')]} :
                  /\ cmd.action_type = action_type
                  /\ cmd.entity_type = entity_type
                  /\ cmd.entity_id = entity_id

\* after this step check_conflict over the interval of b returns no booking
\* with the id of b
CancelHidesBooking(b) ==
    \A found \in Range(ReturnedConflicts(Cur, b.room_id, b.start_time,
                                         b.end_time, None)') : found.id # b.id

\* C13: a cancel_reservation(id) that succeeds sets the status of the booking
\* to Cancelled, removes its interval from the interval index of its room,
\* leaves every other interval in place and logs one Update command for the
\* booking; afterwards check_conflict over the booking's interval does not
\* return it.
C13_CancelRemovesBooking ==
    [][last'.op = "cancel_reservation" /\ last'.ret = "ok"
       => \A id \in ResIds :
              CancelCall(id)
              => \E b \in {BookingCatalog(Cur)[id]} :
                     /\ CancelSetsStatus(id, b)
                     /\ CancelRemovesInterval(b)
                     /\ LoggedOne("UPDATE", "reservation", id)
                     /\ CancelHidesBooking(b)]_vars

\* C14: cancel_reservation(id) ends with NotFound exactly when id is not in
\* the booking catalog and with AlreadyCancelled exactly when the status the
\* catalog holds for id is Cancelled, whether the catalog is read by id or
\* listed, also after undo and redo; in both cases nothing changes: catalogs,
\* interval indexes, undo and redo stacks and the open batch.
C14_CancelErrorsMatchCatalog ==
    [][last'.op = "cancel_reservation"
       => \A id \in ResIds :
              CancelCall(id)
              => /\ \A cat \in {BookingCatalog(Cur), ListedBookings(Cur)} :
                        /\ last'.ret = "NotFound" <=> id \notin DOMAIN cat
                        /\ last'.ret = "AlreadyCancelled"
                               <=> (id \in DOMAIN cat /\ cat[id].status = "CANCELLED")
                 /\ last'.ret \in {"NotFound", "AlreadyCancelled"}
                       => (UNCHANGED sysvars /\ View(Cur)' = View(Cur))]_vars

\* this step put the room into the room catalog with an empty interval index
\* of its own, and touched no other room, index or booking
AddInsertsRoom(room) ==
    /\ RoomCatalog(Cur)' = DictSet(RoomCatalog(Cur), room.id, room)
    /\ IntervalIndexes(Cur)' = DictSet(IntervalIndexes(Cur), room.id, EmptyBag)
    /\ BookingCatalog(Cur)' = BookingCatalog(Cur)

\* C15: add_room with an id already in the room catalog fails and changes
\* nothing, the undo and redo stacks included; with a new id it succeeds, puts
\* the room into the catalog, gives it an empty interval index and logs
\* exactly one Create command for it.
C15_AddRoomContract ==
    [][last'.op = "add_room"
       => \A id \in RoomIds :
              AddRoomCall(id)
              => IF id \in DOMAIN RoomCatalog(Cur)
                   THEN /\ last'.ret = "False"
                        /\ UNCHANGED sysvars
                        /\ View(Cur)' = View(Cur)
                   ELSE /\ last'.ret = "True"
                        /\ AddInsertsRoom(Room(id, RoomCapacity, "MEETING", TRUE))
                        /\ LoggedOne("CREATE", "room", id)]_vars

\* the command this step logged: the newest of the open batch, or the top of
\* the undo stack
LastLogged ==
    IF batch_mode THEN batch_actions'[Len(batch_actions')]
                  ELSE undo_stack'[Len(undo_stack')]

\* this step took the room and its interval index away and touched no other
\* room, index or booking
DeleteRemovesRoom(id) ==
    /\ RoomCatalog(Cur)' = DictDel(RoomCatalog(Cur), id)
    /\ IntervalIndexes(Cur)' = DictDel(IntervalIndexes(Cur), id)
    /\ BookingCatalog(Cur)' = BookingCatalog(Cur)

\* C16: delete_room(id) on a room of the catalog fails and changes nothing
\* when the room's interval index holds an interval; when the index is empty
\* it succeeds, removes the room from the catalog and from the index map, and
\* logs one Delete command that carries the room as it was.
C16_DeleteRoomContract ==
    [][last'.op = "delete_room"
       => \E cat \in {RoomCatalog(Cur)} : \E idx \in {IntervalIndexes(Cur)} :
          \A id \in DOMAIN cat :
              DeleteRoomCall(id)
              => IF id \in DOMAIN idx /\ idx[id] # EmptyBag
                   THEN /\ last'.ret = "False"
                        /\ UNCHANGED sysvars
                        /\ View(Cur)' = View(Cur)
                   ELSE /\ last'.ret = "True"
                        /\ DeleteRemovesRoom(id)
                        /\ LoggedOne("DELETE", "room", id)
                        /\ LastLogged.old_state = room_to_dict(cat[id])]_vars

\* C17: a successful mutation records one command; outside a batch the redo
\* stack is empty afterwards, can_undo() is true and can_redo() is false;
\* inside an open batch the undo stack and the redo stack are left as they
\* were and the command is appended to the batch.
C17_RecordClearsRedo ==
    [][(last'.op \in Mutations /\ Succeeded(last'.ret))
       => IF batch_mode
            THEN /\ UNCHANGED <<undo_stack, redo_stack>>
                 /\ Len(batch_actions') = Len(batch_actions) + 1
                 /\ SubSeq(batch_actions', 1, Len(batch_actions)) = batch_actions
            ELSE /\ redo_stack' = << >>
                 /\ can_undo(Cur)'
                 /\ ~can_redo(Cur)']_vars

\* a command was buffered in an open batch while both stacks held commands
C17_Witness ==
    /\ last.op \in Mutations
    /\ Succeeded(last.ret)
    /\ batch_mode
    /\ batch_actions # << >>
    /\ undo_stack # << >>
    /\ redo_stack # << >>

\* the command type and the entity type a successful call records
RecordedType(op) ==
    IF op \in {"add_room", "create_reservation"} THEN "CREATE"
    ELSE IF op \in {"delete_room", "delete_reservation"} THEN "DELETE"
    ELSE "UPDATE"

RecordedEntity(op) ==
    IF op \in {"add_room", "update_room", "delete_room"} THEN "room"
    ELSE "reservation"

\* C18: the undo stack never holds more than the configured maximum, and a
\* command recorded outside a batch is on top of the undo stack afterwards,
\* where the next undo() takes it from: below it are the commands held before,
\* without the oldest one when the stack was full.
C18_NewestCommandOnTop ==
    [][/\ Len(undo_stack') <= MaxHistory
       /\ (last'.op \in Mutations /\ Succeeded(last'.ret) /\ ~batch_mode)
          => /\ undo_stack' # << >>
             /\ \E cmd \in {stack_peek(undo_stack')} :
                    /\ cmd.action_type = RecordedType(last'.op)
                    /\ cmd.entity_type = RecordedEntity(last'.op)
                    /\ manager_undo(Cur).action' = cmd
                    /\ undo_stack' =
                           IF Len(undo_stack) < MaxHistory
                             THEN Append(undo_stack, cmd)
                             ELSE Append(Tail(undo_stack), cmd)]_vars

\* the undo stack and the redo stack of a manager state
Stacks(s) == <<s.undo_stack, s.redo_stack>>

\* C19: undo() with commands on the undo stack takes the top one off, puts it
\* on top of the redo stack and hands it on; redo() does the same from the
\* redo stack to the undo stack; undo() followed by redo() leaves both stacks
\* as they were; undo() with an empty undo stack, and redo() with an empty
\* redo stack, return None and change neither a stack nor the ledger.
C19_UndoRedoMoveCommands ==
    [][/\ last'.op = "undo"
          => IF undo_stack = << >>
               THEN /\ last'.ret = "None"
                    /\ UNCHANGED sysvars
                    /\ View(Cur)' = View(Cur)
               ELSE /\ last'.ret # "None"
                    /\ manager_undo(Cur).action = stack_peek(undo_stack)
                    /\ Append(undo_stack', stack_peek(undo_stack)) = undo_stack
                    /\ redo_stack' = Append(redo_stack, stack_peek(undo_stack))
       /\ last'.op = "redo"
          => IF redo_stack = << >>
               THEN /\ last'.ret = "None"
                    /\ UNCHANGED sysvars
                    /\ View(Cur)' = View(Cur)
               ELSE /\ last'.ret # "None"
                    /\ manager_redo(Cur).action = stack_peek(redo_stack)
                    /\ Append(redo_stack', stack_peek(redo_stack)) = redo_stack
                    /\ undo_stack' = Append(undo_stack, stack_peek(redo_stack))
       /\ can_undo(Cur)
          => Stacks(manager_redo(manager_undo(Cur).s).s) = Stacks(Cur)]_vars

\* a mutation was undone and redone, and both stacks hold what they held
\* after the mutation
C19_Witness ==
    /\ last.op = "redo"
    /\ last.chain = 3
    /\ undo_stack # << >>
    /\ redo_stack = << >>

\* C20: whatever inserts and deletes were made on an AVL tree, every key
\* inserted and not deleted is found with the value of its latest insert, and
\* size is the number of distinct keys stored: an insert on a key already
\* present overwrites the value and does not change size.
C20_SizeCountsDistinctKeys ==
    /\ avl_keys(avl.root) = DOMAIN avl_map
    /\ \A key \in DOMAIN avl_map : avl_search(avl, key) = avl_map[key]
    /\ avl.size = Cardinality(avl_keys(avl.root))

\* the map an AVL tree holds, read with search over the keys of its nodes
AvlAsMap(t) == [key \in avl_keys(t.root) |-> avl_search(t, key)]

\* search finds each key inserted and not deleted since with the value of its
\* latest insert, and returns None for every other key
AvlSearchAgrees ==
    \A key \in AvlKeys :
        avl_search(avl, key) = IF key \in DOMAIN avl_map THEN avl_map[key] ELSE None

\* C21: an AVL tree behaves as a map. After any inserts and deletes search(k)
\* returns the value of the latest insert of k if k was inserted and not
\* deleted since, and None otherwise; delete(k) returns True exactly when k
\* was present and removes k and nothing else; delete of an absent key returns
\* False and leaves the tree as it was.
C21_AvlBehavesAsMap ==
    [][/\ AvlSearchAgrees
       /\ AvlSearchAgrees'
       /\ \A key \in AvlKeys :
              (avl_last'.op = "delete" /\ AvlDeleteCall(key))
              => /\ avl_last'.ret = (IF key \in DOMAIN avl_map THEN "True" ELSE "False")
                 /\ AvlAsMap(avl)' = DictDel(AvlAsMap(avl), key)
                 /\ key \notin DOMAIN avl_map => avl' = avl]_vars

\* a key lying between two stored keys was deleted and reported True, some key
\* had been inserted more than once, and a lookup of the deleted key answers
\* None
C21_Witness ==
    /\ avl_last.op = "delete"
    /\ avl_last.ret = "True"
    /\ Cardinality(DOMAIN avl_map) >= 2
    /\ avl.size > Cardinality(DOMAIN avl_map)
    /\ \A key \in DOMAIN avl_map : key # avl_last.key
    /\ \E lo, hi \in DOMAIN avl_map : lo < avl_last.key /\ avl_last.key < hi
    /\ avl_search(avl, avl_last.key) = None

\* the entries of the map with low <= key <= high, in ascending order of key
RECURSIVE EntriesBetween(_, _, _)
EntriesBetween(map, low, high) ==
    IF low > high THEN <<>>
    ELSE (IF low \in DOMAIN map THEN <<(<<low, map[low]>>)>> ELSE <<>>)
         \o EntriesBetween(map, low + 1, high)

\* the bounds a range query is asked with: around and between the keys
RangeBounds == 0..(MaxKey + 1)

\* C22: for every tree reached by inserts and deletes and every low and high,
\* range_query(low, high) returns exactly the stored entries whose key lies in
\* [low, high], each once, in ascending order of key.
C22_RangeQueryExact ==
    \A low, high \in RangeBounds :
        range_query(avl, low, high) = EntriesBetween(avl_map, low, high)

\* four keys are stored, one of them re-inserted or a key deleted on the way,
\* and a range that leaves keys out on both sides returns the two inside it
C22_Witness ==
    /\ DOMAIN avl_map = 1..4
    /\ avl_ops > 4
    /\ Len(range_query(avl, 2, 3)) = 2
    /\ range_query(avl, 2, 3)[1][1] = 2
    /\ range_query(avl, 3, 2) = <<>>

\* the points a point query is asked with: every end point and one beyond
QueryPoints == 0..(MaxPoint + 1)

\* C23: whatever inserts and deletes built the tree, for every point t
\* find_at_point(t) returns exactly the stored intervals with
\* start <= t < end.
C23_FindAtPointExact ==
    \E stored \in {get_all_intervals(tree)} :
        \A point \in QueryPoints :
            SeqBag(find_at_point(tree, point))
                = SeqBag(SelectSeq(stored, LAMBDA i : i.start <= point /\ point < i.end))

\* after inserts and a delete that removed an interval, the tree holds three
\* or more intervals; at some point one stored interval starts and is
\* returned while another ends there and is not
C23_Witness ==
    /\ tree.size >= 3
    /\ tree_ops - tree.size >= 2
    /\ BagCardinality(tree_bag) = tree.size
    /\ \E stored \in {get_all_intervals(tree)} :
       \E point \in QueryPoints :
        /\ \E i \in Range(stored) :
               i.start = point /\ i \in Range(find_at_point(tree, point))
        /\ \E i \in Range(stored) :
               i.end = point /\ i.start < point
               /\ i \notin Range(find_at_point(tree, point))

\* the (start, end) pairs the nodes of an interval tree hold, with multiplicity
StoredSpans(t) ==
    With(get_all_intervals(t), LAMBDA stored :
         SeqBag([i \in DOMAIN stored |-> <<stored[i].start, stored[i].end>>]))

\* C24: delete(interval) finds its target by (start, end) equality. Whenever
\* a node holds an interval with the same start and end, delete removes
\* exactly one such interval, returns True and len drops by one; otherwise it
\* returns False and the stored intervals are as they were.
C24_DeleteRemovesOneEqual ==
    [][\A st \in TreePoints, en \in TreePoints :
          (tree_ops' = tree_ops + 1 /\ ~IntervalRaises(st, en)
           /\ TreeDeleteCall(st, en))
          => \E d \in {it_delete(tree, Interval(st, en, None))} :
                IF \E i \in Range(get_all_intervals(tree)) : i.start = st /\ i.end = en
                  THEN /\ d.ok
                       /\ StoredSpans(tree)' (+) SetToBag({<<st, en>>}) = StoredSpans(tree)
                       /\ tree'.size = tree.size - 1
                  ELSE /\ ~d.ok
                       /\ get_all_intervals(tree)' = get_all_intervals(tree)]_vars

\* the minimum durations a gap query is asked with
Durations == 0..MaxPoint

\* the ends a query window is asked with: every end point and one beyond
WindowPoints == 0..(MaxPoint + 1)

\* the cursor of the sweep after the first k intervals of the sorted list
SweepCursor(sorted, k, window_start) ==
    CHOOSE m \in {window_start} \cup {sorted[j].end : j \in 1..k} :
        \A x \in {window_start} \cup {sorted[j].end : j \in 1..k} : x <= m

\* the gaps the sweep looks at, in order: [cursor, interval.start) before each
\* interval of the sorted list, then the trailing [cursor, window_end)
SweepCandidates(sorted, window_start, window_end) ==
    [k \in 1..(Len(sorted) + 1) |->
        [start |-> SweepCursor(sorted, k - 1, window_start),
         end |-> IF k <= Len(sorted) THEN sorted[k].start ELSE window_end,
         data |-> None]]

\* every returned gap lies inside the window, is at least min_duration long
\* and overlaps no stored interval, and the gaps ascend
GapsAreFree(gaps, stored, window_start, window_end, min_duration) ==
    /\ \A k \in DOMAIN gaps :
          /\ window_start <= gaps[k].start
          /\ gaps[k].end <= window_end
          /\ gaps[k].end - gaps[k].start >= min_duration
          /\ \A i \in Range(stored) :
                 ~(i.start < gaps[k].end /\ gaps[k].start < i.end)
    /\ \A k \in 1..(Len(gaps) - 1) : gaps[k].start <= gaps[k + 1].start

\* C25 as stated: find_available_slots(window_start, window_end,
\* min_duration) returns, in ascending order, exactly the gaps of the sweep
\* over the intervals overlapping the window, sorted by start: every gap
\* [cursor, interval.start) and the trailing gap [cursor, window_end) whose
\* length is >= min_duration, and each lies inside the window and overlaps no
\* stored interval.
C25_GapsOfTheSweep ==
    \E stored \in {get_all_intervals(tree)} :
      \A ws \in WindowPoints, we \in WindowPoints, min_duration \in Durations :
        ~IntervalRaises(ws, we)
        => \E gaps \in {find_available_slots(tree, ws, we, min_duration)},
              sorted \in {sort_by_start(BruteForce(stored, Interval(ws, we, None)))} :
              /\ gaps = SelectSeq(SweepCandidates(sorted, ws, we),
                                  LAMBDA g : g.end - g.start >= min_duration)
              /\ GapsAreFree(gaps, stored, ws, we, min_duration)

\* C25 amended: the same, with a gap emitted whenever it is not empty and its
\* length is >= min_duration.
C25_NonEmptyGapsOfTheSweep ==
    \E stored \in {get_all_intervals(tree)} :
      \A ws \in WindowPoints, we \in WindowPoints, min_duration \in Durations :
        ~IntervalRaises(ws, we)
        => \E gaps \in {find_available_slots(tree, ws, we, min_duration)},
              sorted \in {sort_by_start(BruteForce(stored, Interval(ws, we, None)))} :
              /\ gaps = SelectSeq(SweepCandidates(sorted, ws, we),
                                  LAMBDA g : g.start < g.end
                                             /\ g.end - g.start >= min_duration)
              /\ GapsAreFree(gaps, stored, ws, we, min_duration)

\* the tree holds two intervals or more after a delete, one of them inside
\* the window [0, MaxPoint + 1), and the sweep returns a gap before it and
\* the gap after it
C25_Witness ==
    /\ tree.size >= 2
    /\ tree_ops - tree.size >= 2
    /\ \E i \in Range(get_all_intervals(tree)) : 0 < i.start /\ i.start < i.end
    /\ Len(find_available_slots(tree, 0, MaxPoint + 1, 1)) = 2

\* the scenario's window and minimum duration, in the model's scale: the
\* booking is [1 min, 2 min), the window [0, 4 min) opens one minimum duration
\* before the booking starts, as [08:00, 18:00) does before 09:00 with 60 min
ScenarioStart == SecondsPerMinute
ScenarioEnd == 2 * SecondsPerMinute
WindowStart == ScenarioStart - SecondsPerMinute
WindowEnd == 4 * SecondsPerMinute
ScenarioDuration == (ScenarioStart - WindowStart) \div SecondsPerMinute

\* room_id holds the Confirmed booking [ScenarioStart, ScenarioEnd) and no
\* other: one interval in its index, one booking of the room in the catalog
\* and in the dictionary
OnlyBooking(room_id) ==
    /\ room_id \in DOMAIN room_intervals
    /\ \E id \in DOMAIN BookingCatalog(Cur) :
         \E b \in {BookingCatalog(Cur)[id]} :
           /\ b.room_id = room_id
           /\ b.status = "CONFIRMED"
           /\ b.start_time = ScenarioStart
           /\ b.end_time = ScenarioEnd
           /\ IntervalIndexes(Cur)[room_id] = SetToBag({EntryOf(b)})
           /\ \A other \in DOMAIN BookingCatalog(Cur) :
                  BookingCatalog(Cur)[other].room_id = room_id => other = id
           /\ \A other \in DOMAIN ListedBookings(Cur) :
                  ListedBookings(Cur)[other].room_id = room_id
                  => ListedBookings(Cur)[other] = b

\* C26 as stated: with a room holding only the active booking
\* [09:00, 10:30), find_available_slots over [08:00, 18:00) with 60 minutes
\* includes the gap from the booking's end to the window's end and no gap of
\* the minimum duration that ends by the booking's end.
C26_NoGapBeforeBooking ==
    \A room_id \in RoomIds :
        OnlyBooking(room_id)
        => \E slots \in {system_find_available_slots(Cur, room_id, WindowStart,
                                                     WindowEnd, ScenarioDuration)} :
              /\ \E k \in DOMAIN slots :
                     slots[k].start = ScenarioEnd /\ slots[k].end = WindowEnd
              /\ \A k \in DOMAIN slots :
                     ~(/\ slots[k].end <= ScenarioEnd
                       /\ slots[k].duration_minutes >= ScenarioDuration)

\* C26 amended: the call returns two slots, the gap from the window's start
\* to the booking's start, which is exactly the minimum duration long, and
\* then the gap from the booking's end to the window's end.
C26_GapsAroundBooking ==
    \A room_id \in RoomIds :
        OnlyBooking(room_id)
        => system_find_available_slots(Cur, room_id, WindowStart, WindowEnd,
                                       ScenarioDuration)
           = <<[start |-> WindowStart, end |-> ScenarioStart,
                duration_minutes |-> ScenarioDuration],
               [start |-> ScenarioEnd, end |-> WindowEnd,
                duration_minutes |-> (WindowEnd - ScenarioEnd) \div SecondsPerMinute]>>

\* the scenario: a room holds the one booking, and a second create on an
\* overlapping time has just been refused with Conflict
C26_Witness ==
    /\ last.op = "create_reservation"
    /\ last.ret = "Conflict"
    /\ \E room_id \in RoomIds : OnlyBooking(room_id)

\* C27: each successful cancel_reservation calls the waiting list's
\* notify_available exactly once, with the room id of the cancelled booking,
\* when the booking is already Cancelled and the room's index is already as
\* the cancel leaves it; a cancel that fails or raises does not call it.
C27_CancelNotifiesOnce ==
    [][last'.op = "cancel_reservation"
       => \A id \in ResIds :
             CancelCall(id)
             => IF last'.ret = "ok"
                  THEN \E a \in {get_reservation(Cur, id)} :
                       /\ Len(notified') = 1
                       /\ notified'[1].room = resHeap[a].room_id
                       /\ notified'[1].resHeap[a].status = "CANCELLED"
                       /\ notified'[1].room_intervals = room_intervals'
                  ELSE notified' = << >>]_vars

\* a booking was cancelled while its room held another booking: the waiting
\* list was told once, and the room's index had lost an interval by then
C27_Witness ==
    /\ last.op = "cancel_reservation"
    /\ last.ret = "ok"
    /\ Len(notified) = 1
    /\ \E id \in DOMAIN BookingCatalog(Cur) :
          /\ BookingCatalog(Cur)[id].room_id = notified[1].room
          /\ BookingCatalog(Cur)[id].status = "CANCELLED"
    /\ \E id \in DOMAIN BookingCatalog(Cur) :
          /\ BookingCatalog(Cur)[id].room_id = notified[1].room
          /\ BookingCatalog(Cur)[id].status = "CONFIRMED"
    /\ notified[1].room_intervals[notified[1].room].size = 1

\* the start times and durations alternatives are asked for
RequestStarts == {0, SecondsPerMinute}
RequestMinutes == {1, 2}

\* C28: suggest_alternatives lists every same-room slot before every
\* other-room slot, each group in ascending order of start, and every slot
\* it suggests has no conflict, by check_conflict, on its room at the time
\* of the call.
C28_AlternativesOrderedAndFree ==
    \A room_id \in RoomIds, start_time \in RequestStarts, minutes \in RequestMinutes :
        \E cur \in {Cur} :
        \E r \in {suggest_alternatives(cur, room_id, start_time, minutes)} :
        \E alts \in {r.alternatives} :
            /\ \A i \in DOMAIN alts, j \in DOMAIN alts :
                   i < j => /\ ~(/\ alts[i].type = "different_room_same_time"
                                 /\ alts[j].type = "same_room_different_time")
                            /\ alts[i].type = alts[j].type
                                => alts[i].start <= alts[j].start
            /\ \A i \in DOMAIN alts :
                   check_conflict(cur, alts[i].room_id, alts[i].start, alts[i].end, None)
                       = << >>

\* the height of a subtree, counted over its nodes
RECURSIVE TrueHeight(_)
TrueHeight(node) ==
    IF node = AvlNil THEN 0
    ELSE 1 + Max2(TrueHeight(node.left), TrueHeight(node.right))

\* every node of the subtree stores its true height, and the heights of its
\* two subtrees differ by one at most
RECURSIVE Balanced(_)
Balanced(node) ==
    \/ node = AvlNil
    \/ /\ node.height = TrueHeight(node)
       /\ TrueHeight(node.left) - TrueHeight(node.right) \in {-1, 0, 1}
       /\ Balanced(node.left)
       /\ Balanced(node.right)

\* C29: after every insert and delete on an AVL tree and on an interval tree,
\* intervals of equal start included, every node stores its true height and
\* the heights of its left and right subtrees differ by one at most.
C29_TreesStayBalanced ==
    /\ Balanced(avl.root)
    /\ Balanced(tree.root)

\* an interval tree of four intervals or more, two of them with the same
\* start, three levels high after five inserts and a delete that removed one
C29_Witness ==
    /\ tree.size >= 4
    /\ tree_ops - tree.size >= 2
    /\ tree.root.height >= 3
    /\ \E i, j \in Range(get_all_intervals(tree)) : i.start = j.start /\ i.end # j.end

\* the maximum end bound over the intervals of a subtree
RECURSIVE TrueMaxEnd(_)
TrueMaxEnd(node) ==
    With(IF node.left = ItNil THEN node.interval.end
         ELSE Max2(node.interval.end, TrueMaxEnd(node.left)), LAMBDA m :
         IF node.right = ItNil THEN m ELSE Max2(m, TrueMaxEnd(node.right)))

RECURSIVE Augmented(_)
Augmented(node) ==
    \/ node = ItNil
    \/ /\ node.max_end = TrueMaxEnd(node)
       /\ Augmented(node.left)
       /\ Augmented(node.right)

\* C30: in every interval tree reached by inserts and deletes, after every
\* rotation and every two-child successor splice, each node's max_end is the
\* maximum end bound over the intervals of its own subtree, itself included.
C30_MaxEndIsSubtreeMaximum == Augmented(tree.root)

\* after a delete that removed an interval the tree holds three intervals or
\* more, two of them with the same start; the root has two children and its
\* max_end comes from an interval below it
C30_Witness ==
    /\ tree.size >= 3
    /\ tree_ops - tree.size >= 2
    /\ BagCardinality(tree_bag) = tree.size
    /\ tree.root.left # ItNil
    /\ tree.root.right # ItNil
    /\ tree.root.max_end > tree.root.interval.end
    /\ \E i, j \in Range(get_all_intervals(tree)) : i.start = j.start /\ i.end # j.end

\* the intervals one index stores, as (start, end, Reservation object), with
\* multiplicity
IndexContent(index) ==
    With(get_all_intervals(index), LAMBDA seq :
         SeqBag([i \in DOMAIN seq |-> <<seq[i].start, seq[i].end, seq[i].data>>]))

\* what the index of room_id has to store: one interval for each booking of
\* the catalog that is on that room and not Cancelled, with the booking's
\* current bounds and the catalog's object as payload
IndexDue(room_id) ==
    SetToBag({<<datetime_to_minutes(resHeap[get_reservation(Cur, id)].start_time),
                datetime_to_minutes(resHeap[get_reservation(Cur, id)].end_time),
                get_reservation(Cur, id)>> :
              id \in {i \in avl_keys(reservation_tree.root) :
                         /\ resHeap[get_reservation(Cur, i)].room_id = room_id
                         /\ resHeap[get_reservation(Cur, i)].status # "CANCELLED"}})

\* C31: between operations, undo and redo included, the interval index of
\* each room stores exactly one interval for each booking of the catalog on
\* that room that is not Cancelled, with that booking's current start and end
\* and the catalog's record as payload, and no interval for a Cancelled
\* booking or for a booking the catalog does not hold.
C31_IndexCatalogLockstep ==
    \A room_id \in DOMAIN room_intervals :
        IndexContent(room_intervals[room_id]) = IndexDue(room_id)

\* C32: update_reservation with a patch that touches none of start_time,
\* end_time and room_id causes no interval churn: every index stores the same
\* intervals with the same payloads after the call as before it, whatever
\* the status of the booking.
C32_PlainUpdateKeepsIntervals ==
    [][(last'.op = "update_reservation" /\ last'.kind \in {"title", "status"})
       => /\ DOMAIN room_intervals' = DOMAIN room_intervals
          /\ \A room_id \in DOMAIN room_intervals :
                 IndexContent(room_intervals[room_id])'
                     = IndexContent(room_intervals[room_id])]_vars


\* C33: the redo stack holds commands only right after an undo: whenever it is
\* not empty, no mutation has been recorded, pushed on the undo stack or
\* buffered in an open batch, since the most recent undo(); so the latest
\* call is never a mutation that recorded a command.
C33_RedoOnlyAfterUndo ==
    redo_stack # << >> => ~(last.op \in Mutations /\ Succeeded(last.ret))


\* C34: the commands recorded between begin_batch and end_batch are not
\* pushed one by one: end_batch pushes exactly one BATCH command that holds
\* all the buffered commands in their order and clears the redo stack, and
\* an undo() right after it returns that BATCH command.
C34_EndBatchPushesOneBatch ==
    [][(last'.op = "end_batch" /\ batch_mode /\ batch_actions # << >>)
       => \E cmd \in {Action("BATCH", "batch", None,
                              [batch |-> batch_actions], NoState)} :
              /\ undo_stack' = Append(undo_stack, cmd)
              /\ redo_stack' = << >>
              /\ batch_actions' = << >>
              /\ manager_undo(Cur)'.action = cmd]_vars


\* C35: a room leaves the catalog only while its interval index is empty: in
\* every step that removes a room (delete_room, the undo of its CREATE, the
\* redo of its DELETE), the index of that room holds no interval when the
\* room goes.
C35_RoomLeavesWithEmptyIndex ==
    [][\A room_id \in avl_keys(room_tree.root) \cap DOMAIN room_intervals :
           room_id \notin avl_keys(room_tree.root)'
               => get_all_intervals(room_intervals[room_id]) = << >>]_vars


\* C36: referential integrity: every booking of the catalog, whatever its
\* status, names a room that the room catalog and the interval indexes hold,
\* so that no operation on an existing booking fails for lack of its room.
C36_BookingsNameExistingRooms ==
    \A id \in avl_keys(reservation_tree.root) :
        /\ resHeap[get_reservation(Cur, id)].room_id \in avl_keys(room_tree.root)
        /\ resHeap[get_reservation(Cur, id)].room_id \in DOMAIN room_intervals


\* C37: a booking that is Cancelled or Completed stays out of Pending and
\* Confirmed: no create_reservation, update_reservation or
\* cancel_reservation call turns the status of such a booking of the catalog
\* back to PENDING or CONFIRMED (only undo and redo may).
C37_TerminatedStaysTerminated ==
    [][(last'.op \in {"create_reservation", "update_reservation",
                      "cancel_reservation"})
       => \A id \in DOMAIN BookingCatalog(Cur) \cap DOMAIN BookingCatalog(Cur)' :
              BookingCatalog(Cur)[id].status \in {"CANCELLED", "COMPLETED"}
                  => BookingCatalog(Cur)'[id].status \notin {"PENDING", "CONFIRMED"}]_vars


\* C38: an interval tree is ordered by start with ties broken by end:
\* get_all_intervals lists the stored intervals in ascending (start, end)
\* order, the order delete walks the tree by.
C38_ListedInSpanOrder ==
    \E seq \in {get_all_intervals(tree)} :
        \A i \in DOMAIN seq : \A j \in DOMAIN seq :
            i < j => (interval_lt(seq[i], seq[j]) \/ interval_eq(seq[i], seq[j]))


\* C39: the two copies of each catalog agree: the dictionary and the AVL
\* tree of the bookings hold the same ids with the same record, and so do
\* those of the rooms, so that get_reservation and get_room return what the
\* latest operation, undo or redo established.
C39_DictAndTreeAgree ==
    /\ BookingCatalog(Cur) = ListedBookings(Cur)
    /\ RoomCatalog(Cur) = [id \in DOMAIN rooms |-> roomHeap[rooms[id]]]


\* this step is an operation on the booking id: an update, a cancel or a
\* delete called with it, or the undo or redo of a command recorded for it
OnBooking(id) ==
    \/ /\ last'.op = "update_reservation"
       /\ \E kwargs \in Kwargs : \E cur \in {Cur} :
          \E r \in {update_reservation(cur, id, kwargs)} :
              Step("update_reservation", KwargsKind(cur, kwargs), cur, r)
    \/ /\ last'.op = "cancel_reservation"
       /\ CancelCall(id)
    \/ /\ last'.op = "delete_reservation"
       /\ \E cur \in {Cur} : \E r \in {delete_reservation(cur, id)} :
              Step("delete_reservation", "none", cur, r)
    \/ /\ last'.op = "undo"
       /\ can_undo(Cur)
       /\ stack_peek(undo_stack).entity_type = "reservation"
       /\ stack_peek(undo_stack).entity_id = id
    \/ /\ last'.op = "redo"
       /\ can_redo(Cur)
       /\ stack_peek(redo_stack).entity_type = "reservation"
       /\ stack_peek(redo_stack).entity_id = id

\* every interval stored for a booking other than id is still stored, as
\* often as before, after the step
OthersKept(id) ==
    \A room_id \in DOMAIN room_intervals :
        \A e \in BagToSet(IndexContent(room_intervals[room_id])) :
            resHeap[e[3]].id # id
                => /\ room_id \in DOMAIN room_intervals'
                   /\ CopiesIn(e, IndexContent(room_intervals[room_id])')
                          >= CopiesIn(e, IndexContent(room_intervals[room_id]))

\* C40: an operation on a booking X (update, cancel, delete, or the undo or
\* redo of a command on X) never removes or replaces the stored interval of
\* another booking Y in any index, even when Y has the same start and end.
C40_OtherBookingsIntervalsKept ==
    [][\A id \in ResIds : OnBooking(id) => OthersKept(id)]_vars

====
